---- MODULE Spec2Model ----
(***************************************************************************)
(* Clip identification pipeline of the AI video clipper                    *)
(* (src/src/services/clipper.js, driven by main in src/unnamed/part_000).  *)
(*                                                                         *)
(* Representation.                                                         *)
(*  - A text is a sequence of one-character strings.  " " and "\n" are     *)
(*    whitespace, "." "!" "?" are sentence terminators, "\"" and "'" are   *)
(*    quotes, every other character is a letter; a letter stands for a     *)
(*    one-letter word, and a few letters stand for the keywords the        *)
(*    regular expressions of the source look for (see KeywordLetters).     *)
(*  - Times are integers.  Utterance, word and chapter transcripts carry   *)
(*    milliseconds, as in the source.  On the text path a time is counted  *)
(*    in ticks of 1/unit ms, where unit is the transcript's word count     *)
(*    when audio_duration is present (timePerWord = audio_duration /       *)
(*    totalWords is then a whole number of ticks) and 1 otherwise.         *)
(*  - Scores are fixed-point integers in units of 1/ScoreOne.              *)
(*  - A JavaScript object is a record; a field the object does not have    *)
(*    is a field outside the record's DOMAIN.                              *)
(***************************************************************************)
EXTENDS Integers, Sequences, FiniteSets, TLC

\* ------------------------------------------------------------------------
\* Program constants (src/src/config/constants.js)
CLIP_MIN_DURATION == 8
CLIP_MAX_DURATION == 30
CLIP_IDEAL_DURATION == 15

\* fixed-point unit of a score
ScoreOne == 10000

\* ------------------------------------------------------------------------
\* Numbers
Max(a, b) == IF a >= b THEN a ELSE b
Min(a, b) == IF a <= b THEN a ELSE b
Abs(a) == IF a >= 0 THEN a ELSE 0 - a

\* ------------------------------------------------------------------------
\* Characters
Whitespace == {" ", "\n"}
Terminators == {".", "!", "?"}
Quotes == {"\"", "'"}

\* letters standing for keywords of the source's regular expressions
KeywordLetters ==
  [ powerful    |-> {"k"},       \* "key", "best", "must", ...            (clipper.js:107)
    number      |-> {"n"},       \* "one", "two", "1", ...                (clipper.js:108)
    music       |-> {"m"},       \* "song", "chorus", ...                 (clipper.js:489)
    educational |-> {"k", "l"},  \* "key", "learn", ...                   (clipper.js:498)
    interview   |-> {"q"},       \* "question", "asked", ...              (clipper.js:504)
    emotional   |-> {"v"},       \* "shocking", "surprising", ...         (clipper.js:1377)
    story       |-> {"h"},       \* "when", "once", "finally", ...        (clipper.js:1378)
    learning    |-> {"l"},       \* "learn", "know", "fact", ...          (clipper.js:1379)
    curiosity   |-> {},          \* phrases of several words only         (clipper.js:1380)
    narrative   |-> {"h", "i"},  \* "when", "once", "i", "we", ...        (clipper.js:1901)
    impact      |-> {"v"},       \* "shocking", "surprising", ...         (clipper.js:1909)
    study       |-> {"l"},       \* "learn", "know", ...                  (clipper.js:1916)
    twist       |-> {"b"} ]      \* "but", "however", ...                 (clipper.js:1930)

\* ------------------------------------------------------------------------
\* String helpers of JavaScript, on texts

\* String.prototype.trim
Trim(text) ==
  LET inked == {i \in 1..Len(text) : text[i] \notin Whitespace}
  IN IF inked = {} THEN <<>>
     ELSE SubSeq(text, CHOOSE i \in inked : \A j \in inked : i <= j,
                       CHOOSE i \in inked : \A j \in inked : i >= j)

\* text.split(/\s+/): the pieces between maximal runs of whitespace; a text
\* that starts (ends) with whitespace has an empty first (last) piece.
SplitWhitespace(text) ==
  LET RECURSIVE SplitFrom(_, _)
      SplitFrom(i, piece) ==
        IF i > Len(text) THEN <<piece>>
        ELSE IF text[i] \in Whitespace
             THEN IF i > 1 /\ text[i - 1] \in Whitespace
                  THEN SplitFrom(i + 1, piece)
                  ELSE <<piece>> \o SplitFrom(i + 1, <<>>)
             ELSE SplitFrom(i + 1, Append(piece, text[i]))
  IN SplitFrom(1, <<>>)

\* text.split(/\s+/).length
WordCountOf(text) == Len(SplitWhitespace(text))

\* sentenceGroup.join(' ')
RECURSIVE JoinWithSpace(_)
JoinWithSpace(parts) ==
  IF Len(parts) = 0 THEN <<>>
  ELSE IF Len(parts) = 1 THEN parts[1]
  ELSE parts[1] \o <<" ">> \o JoinWithSpace(Tail(parts))

\* text.includes(c) for a set of characters
HasCharIn(text, chars) == \E i \in 1..Len(text) : text[i] \in chars

\* a split that keeps the whole text as one sentence, with whatever follows
\* its last terminator; C10 excludes it
WholeTextAsSentence(text) == <<text>>

\* transcriptText.match(/[^.!?]+[.!?]+/g) || []
\* a match starts at the first non-terminator at or after i, runs over one or
\* more non-terminators and then over every terminator that follows
Sentences(text) ==
  LET RECURSIVE MatchSentences(_)
      MatchSentences(i) ==
        IF i > Len(text) THEN <<>>
        ELSE IF text[i] \in Terminators THEN MatchSentences(i + 1)
        ELSE LET ends == {j \in i..Len(text) : text[j] \in Terminators}
             IN IF ends = {} THEN <<>>
                ELSE LET first == CHOOSE j \in ends : \A k \in ends : j <= k
                         stops == {j \in first..Len(text) :
                                     j = Len(text) \/ text[j + 1] \notin Terminators}
                         last == CHOOSE j \in stops : \A k \in stops : j <= k
                     IN <<SubSeq(text, i, last)>> \o MatchSentences(last + 1)
  IN MatchSentences(1)

\* /[.!?][\s"']*$/.test(text.trim())
RECURSIVE StripTrailing(_, _)
StripTrailing(text, chars) ==
  IF Len(text) > 0 /\ text[Len(text)] \in chars
  THEN StripTrailing(SubSeq(text, 1, Len(text) - 1), chars)
  ELSE text

EndsWithCompleteSentence(text) ==
  LET rest == StripTrailing(Trim(text), Whitespace \cup Quotes)
  IN Len(rest) > 0 /\ rest[Len(rest)] \in Terminators

\* ------------------------------------------------------------------------
\* detectContentType (clipper.js:487-511)

\* findRepeatedPhrases (clipper.js:536-562): the number of distinct phrases of
\* 3 to 8 consecutive words that occur more than once
findRepeatedPhrases(text) ==
  LET words == SplitWhitespace(text)
      phrases == UNION {{SubSeq(words, i, i + n - 1) : i \in 1..(Len(words) - n + 1)} :
                          n \in 3..8}
      count(phrase) == Cardinality({i \in 1..(Len(words) - Len(phrase) + 1) :
                                      SubSeq(words, i, i + Len(phrase) - 1) = phrase})
  IN Cardinality({phrase \in phrases : count(phrase) > 1})

detectContentType(text) ==
  IF HasCharIn(text, KeywordLetters.music) \/ findRepeatedPhrases(text) > 3 THEN "music"
  ELSE IF HasCharIn(text, KeywordLetters.educational) THEN "educational"
  ELSE IF HasCharIn(text, KeywordLetters.interview) THEN "interview"
  ELSE "generic"

\* ------------------------------------------------------------------------
\* createPotentialClips (clipper.js:55-148)
\* sentences: the sentence texts; timePerWord in ticks; u: ticks per ms

\* wordsSoFar (clipper.js:77-80)
RECURSIVE WordsSoFar(_, _)
WordsSoFar(sentences, i) ==
  IF i = 0 THEN 0
  ELSE WordCountOf(sentences[i]) + WordsSoFar(sentences, i - 1)

\* the duration band without the relaxation, in ms
StrictMinMs == CLIP_MIN_DURATION * 1000

\* the relaxed duration band (clipper.js:98-99), in ms
RelaxedMinMs == Max(5000, CLIP_MIN_DURATION * 700)
RelaxedMaxMs == Min(60000, CLIP_MAX_DURATION * 1500)

\* durationQuality = 1 - |adjustedDuration - IDEAL| / IDEAL (clipper.js:103)
DurationQuality(adjustedDuration, u) ==
  ScoreOne - (Abs(adjustedDuration - CLIP_IDEAL_DURATION * 1000 * u) * (ScoreOne \div 1000))
               \div (CLIP_IDEAL_DURATION * u)

\* one iteration of the inner loop (clipper.js:68-138): the clip of the group
\* of n sentences that starts after the first i sentences, or nothing
GroupClip(sentences, i, n, timePerWord, u) ==
  LET text == JoinWithSpace(SubSeq(sentences, i + 1, i + n))
      wordCount == WordCountOf(text)
      wordsSoFar == WordsSoFar(sentences, i)
      estimatedDuration == wordCount * timePerWord
      dynamicStartPadding ==
        Min(1500 * u, Max(500 * u, (estimatedDuration * 5) \div 100))
      dynamicEndPadding ==
        Min(2500 * u, Max(1000 * u, (estimatedDuration * 10) \div 100))
      estimatedStartTime == Max(0, wordsSoFar * timePerWord - dynamicStartPadding)
      estimatedEndTime ==
        wordsSoFar * timePerWord + estimatedDuration + dynamicEndPadding
      adjustedDuration == estimatedEndTime - estimatedStartTime
      hasQuestion == HasCharIn(text, {"?"})
      hasPowerfulWords == HasCharIn(text, KeywordLetters.powerful)
      hasNumbers == HasCharIn(text, KeywordLetters.number)
      impactBonus == (IF hasQuestion THEN ScoreOne \div 10 ELSE 0)
                     + (IF hasPowerfulWords THEN (ScoreOne * 15) \div 100 ELSE 0)
                     + (IF hasNumbers THEN ScoreOne \div 10 ELSE 0)
      complete == EndsWithCompleteSentence(text)
      sentenceCompletionBonus == IF complete THEN ScoreOne \div 2 ELSE 0
  IN IF wordCount < 5 THEN <<>>
     ELSE IF adjustedDuration >= RelaxedMinMs * u /\ adjustedDuration <= RelaxedMaxMs * u
     THEN << [ text |-> text,
               duration |-> adjustedDuration,
               wordCount |-> wordCount,
               sentenceCount |-> n,
               start |-> estimatedStartTime,
               end |-> estimatedEndTime,
               sentenceGroup |-> i,
               qualityScore |-> DurationQuality(adjustedDuration, u) + impactBonus
                                + sentenceCompletionBonus,
               impactFactors |-> [ hasQuestion |-> hasQuestion,
                                   hasPowerfulWords |-> hasPowerfulWords,
                                   hasNumbers |-> hasNumbers,
                                   impactBonus |-> impactBonus ],
               endsWithCompleteSentence |-> complete ] >>
     ELSE <<>>

\* GroupsOfSize: the inner loop for one group size n (clipper.js:67-139);
\* GroupSizesFrom: the outer loop, from the largest group size down to 1, left
\* as soon as 150 clips have accumulated at the end of a group size
\* (clipper.js:63, 142-144)
createPotentialClips(sentences, timePerWord, u, contentType) ==
  LET RECURSIVE GroupsOfSize(_, _)
      GroupsOfSize(i, n) ==
        IF i > Len(sentences) - n THEN <<>>
        ELSE GroupClip(sentences, i, n, timePerWord, u) \o GroupsOfSize(i + 1, n)
      RECURSIVE GroupSizesFrom(_, _)
      GroupSizesFrom(n, potentialClips) ==
        IF n < 1 THEN potentialClips
        ELSE LET grown == potentialClips \o GroupsOfSize(0, n)
             IN IF Len(grown) >= 150 THEN grown
                ELSE GroupSizesFrom(n - 1, grown)
  IN GroupSizesFrom(IF contentType = "music" THEN 7 ELSE 6, <<>>)

\* ------------------------------------------------------------------------
\* Array.prototype.sort with a comparator b.key - a.key (a stable sort, keys
\* descending): the indices of keys in sorted order
SortedIndicesDesc(keys) ==
  LET RankDesc(i) ==
        1 + Cardinality({j \in 1..Len(keys) :
                           keys[j] > keys[i] \/ (keys[j] = keys[i] /\ j < i)})
  IN [r \in 1..Len(keys) |-> CHOOSE i \in 1..Len(keys) : RankDesc(i) = r]

SortByQualityDesc(clips) ==
  LET order == SortedIndicesDesc([i \in 1..Len(clips) |-> clips[i].qualityScore])
  IN [r \in 1..Len(clips) |-> clips[order[r]]]

\* A reason is a record: tag is the fixed wording ("reply" when the wording
\* is the reply's own, kept in text), number the clip number the wording
\* quotes (0 when it quotes none).
ReasonFromReply(text) == [tag |-> "reply", number |-> 0, text |-> text]
ReasonDefault(tag, number) == [tag |-> tag, number |-> number, text |-> <<>>]

\* Array.prototype.filter
RECURSIVE FilterSeq(_, _)
FilterSeq(seq, keep) ==
  IF Len(seq) = 0 THEN <<>>
  ELSE (IF seq[1] \in keep THEN <<seq[1]>> ELSE <<>>) \o FilterSeq(Tail(seq), keep)

\* Array.prototype.slice(0, n)
Take(seq, n) == SubSeq(seq, 1, Min(n, Len(seq)))
\* Array.prototype.slice(n)
Drop(seq, n) == SubSeq(seq, Min(n, Len(seq)) + 1, Len(seq))

\* Math.ceil(a / b) for a >= 0, b > 0
CeilDiv(a, b) == (a + b - 1) \div b

\* the permutations of 1..n: the outcomes of the Fisher-Yates shuffle
\* (clipper.js:275-278, 1559-1562)
ShuffleOutcomes(n) ==
  {p \in [1..n -> 1..n] : \A i, j \in 1..n : p[i] = p[j] => i = j}

Shuffled(seq, p) == [i \in 1..Len(seq) |-> seq[p[i]]]

\* ------------------------------------------------------------------------
\* identifyClipsFromFullText, up to the pool (clipper.js:155-288)

HasField(obj, f) == f \in DOMAIN obj

\* transcriptData.audio_duration || transcriptData.audioDuration, in ms; 0
\* when absent (falsy either way)
AudioDurationMs(t) ==
  IF HasField(t, "audio_duration") /\ t.audio_duration # 0 THEN t.audio_duration
  ELSE IF HasField(t, "audioDuration") THEN t.audioDuration
  ELSE 0

\* ticks per ms of the text path
TextUnit(t) ==
  IF AudioDurationMs(t) # 0 /\ WordCountOf(t.text) > 0 THEN WordCountOf(t.text) ELSE 1

\* timePerWord (clipper.js:180-190), in ticks
TimePerWord(t) ==
  IF AudioDurationMs(t) # 0 /\ WordCountOf(t.text) > 0
  THEN AudioDurationMs(t)      \* audio_duration / totalWords ms
  ELSE 400                     \* 0.4 s

\* validatedClips (clipper.js:198-216)
ValidateClip(clip, audioMs, u) ==
  LET maxTime == IF audioMs # 0 THEN audioMs * u ELSE 24 * 60 * 60 * 1000 * u
      floor == CLIP_MIN_DURATION * 700 * u
      validatedStart == Max(0, Min(clip.start, maxTime - floor))
      validatedEnd == Min(maxTime, Max(validatedStart + floor, clip.end))
  IN [clip EXCEPT !.start = validatedStart,
                  !.end = validatedEnd,
                  !.duration = validatedEnd - validatedStart]

ValidatedClips(t) ==
  LET u == TextUnit(t)
      potentialClips == createPotentialClips(Sentences(t.text), TimePerWord(t), u,
                                             detectContentType(t.text))
  IN [i \in 1..Len(potentialClips) |->
        ValidateClip(potentialClips[i], AudioDurationMs(t), u)]

\* CLIPS_FOR_AI (clipper.js:222)
CLIPS_FOR_AI == 60

\* one duration bucket's contribution (clipper.js:256-269); lo, hi in ms
BucketContribution(remainingClips, lo, hi, closed, u) ==
  LET inBucket == {c \in {remainingClips[i] : i \in 1..Len(remainingClips)} :
                     /\ c.duration >= lo * u
                     /\ IF closed THEN c.duration <= hi * u ELSE c.duration < hi * u}
      clips == SortByQualityDesc(FilterSeq(remainingClips, inBucket))
      bucketContribution ==
        Min(Len(clips),
            CeilDiv((CLIPS_FOR_AI \div 2) * Len(clips), Len(remainingClips)))
  IN IF Len(clips) > 0 THEN Take(clips, bucketContribution) ELSE <<>>

\* clipsForAI before the shuffle (clipper.js:219-272)
TextClipsForAI(validatedClips, u) ==
  LET sortedClips == SortByQualityDesc(validatedClips)
  IN IF Len(sortedClips) > CLIPS_FOR_AI
     THEN LET topByQuality == Take(sortedClips, CLIPS_FOR_AI \div 2)
              remainingClips == Drop(sortedClips, CLIPS_FOR_AI \div 2)
          IN topByQuality
             \o BucketContribution(remainingClips, 3000, 10000, FALSE, u)
             \o BucketContribution(remainingClips, 10000, 20000, FALSE, u)
             \o BucketContribution(remainingClips, 20000, 30000, FALSE, u)
             \o BucketContribution(remainingClips, 30000, 60000, TRUE, u)
     ELSE sortedClips

\* ------------------------------------------------------------------------
\* identifyClipsFromUtterances, up to the pool (clipper.js:1280-1562)
\* an utterance is [text, start, end, speaker], start and end in ms

\* /[.!?]\s*$/.test(text)
EndsWithTerminator(text) ==
  LET rest == StripTrailing(text, Whitespace)
  IN Len(rest) > 0 /\ rest[Len(rest)] \in Terminators

\* [...text.matchAll(/[.!?]\s+/g)]: index + length of the last match, the
\* number of characters up to the end of the last sentence boundary; 0 when
\* there is no match
LastBoundaryIndex(text) ==
  LET starts == {p \in 1..(Len(text) - 1) :
                   text[p] \in Terminators /\ text[p + 1] \in Whitespace}
  IN IF starts = {} THEN 0
     ELSE LET p == CHOOSE x \in starts : \A y \in starts : y <= x
              stops == {q \in (p + 1)..Len(text) :
                          q = Len(text) \/ text[q + 1] \notin Whitespace}
          IN CHOOSE q \in stops : \A r \in stops : q <= r

\* (text.match(/[.!?]+/g) || []).length
TerminatorRuns(text) ==
  Cardinality({p \in 1..Len(text) :
                 text[p] \in Terminators /\ (p = 1 \/ text[p - 1] \notin Terminators)})

\* viralScore (clipper.js:1382-1386, 1470-1474)
ViralScoreOf(text) ==
  (IF HasCharIn(text, KeywordLetters.emotional) THEN (ScoreOne * 15) \div 100 ELSE 0)
  + (IF HasCharIn(text, KeywordLetters.story) THEN (ScoreOne * 15) \div 100 ELSE 0)
  + (IF HasCharIn(text, KeywordLetters.learning) THEN (ScoreOne * 15) \div 100 ELSE 0)
  + (IF HasCharIn(text, KeywordLetters.curiosity) THEN (ScoreOne * 25) \div 100 ELSE 0)

ViralElementsOf(text) ==
  [ emotionalLanguage |-> HasCharIn(text, KeywordLetters.emotional),
    storyElement |-> HasCharIn(text, KeywordLetters.story),
    educationalValue |-> HasCharIn(text, KeywordLetters.learning),
    curiosityHook |-> HasCharIn(text, KeywordLetters.curiosity) ]

\* 0.3 * (1 - |duration - 15| / 15), duration in ms (clipper.js:1393, 1476)
UtteranceDurationScore(duration) == (3 * (15000 - Abs(duration - 15000)) * 10) \div 150

\* the adjustment of a window that has reached 5 s (clipper.js:1329-1365):
\* the window's utterances and its end after the adjustment
AdjustWindow(windowUtterances, windowEnd) ==
  LET n == Len(windowUtterances)
      lastUtterance == windowUtterances[n]
      lastText == Trim(lastUtterance.text)
      boundaryIndex == LastBoundaryIndex(lastText)
      utteranceDuration == lastUtterance.end - lastUtterance.start
      \* utteranceDuration * boundaryIndex / lastText.length, cut to whole ms
      partialUtteranceTime == (utteranceDuration * boundaryIndex) \div Len(lastText)
  IN IF ~EndsWithTerminator(lastText) /\ n > 1
     THEN IF boundaryIndex > 0
          THEN [ utterances |->
                   [windowUtterances EXCEPT ![n] =
                      [lastUtterance EXCEPT
                         !.text = Trim(SubSeq(lastText, 1, boundaryIndex)),
                         !.end = lastUtterance.start + partialUtteranceTime]],
                 end |-> lastUtterance.start + partialUtteranceTime ]
          ELSE [ utterances |-> SubSeq(windowUtterances, 1, n - 1),
                 end |-> lastUtterance.start ]
     ELSE [utterances |-> windowUtterances, end |-> windowEnd]

\* the candidate of a window (clipper.js:1372-1415); the utterances field is
\* filled in by WindowClips, because every candidate of one start index
\* holds the same array object
WindowClip(windowUtterances, windowStart, windowEnd) ==
  LET adjustedDuration == windowEnd - windowStart
      text == JoinWithSpace([k \in 1..Len(windowUtterances) |-> windowUtterances[k].text])
      wordCount == WordCountOf(text)
      sentenceCount == TerminatorRuns(text)
      viralScore == ViralScoreOf(text)
  IN [ start |-> windowStart,
       end |-> windowEnd,
       duration |-> adjustedDuration,
       text |-> text,
       wordCount |-> wordCount,
       sentenceCount |-> sentenceCount,
       utterances |-> windowUtterances,
       qualityScore |-> UtteranceDurationScore(adjustedDuration)
                        + (ScoreOne \div 10) * sentenceCount
                        + (wordCount * 200 * ScoreOne) \div adjustedDuration
                        + viralScore \div 2,
       viralScore |-> viralScore,
       completeEnding |-> TRUE,
       viralElements |-> ViralElementsOf(text) ]

\* MAX_WINDOW (clipper.js:1298), in seconds
MAX_WINDOW == 60

\* the inner loop over j (clipper.js:1293-1418): the final windowUtterances
\* and the candidates pushed
RECURSIVE WindowLoop(_, _, _, _, _)
WindowLoop(utterances, i, j, windowUtterances, pushed) ==
  IF j > Len(utterances) THEN [utterances |-> windowUtterances, clips |-> pushed]
  ELSE
    LET windowStart == utterances[i].start
        utterance == utterances[j]
    IN IF utterance.end - windowStart > MAX_WINDOW * 1000
       THEN \* clipper.js:1301-1318
            IF /\ Len(windowUtterances) > 1
               /\ ~EndsWithTerminator(Trim(windowUtterances[Len(windowUtterances)].text))
            THEN [ utterances |-> SubSeq(windowUtterances, 1, Len(windowUtterances) - 1),
                   clips |-> pushed ]
            ELSE [utterances |-> windowUtterances, clips |-> pushed]
       ELSE
         LET grown == Append(windowUtterances, utterance)
             duration == utterance.end - windowStart
         IN IF duration >= 5000
            THEN LET adjusted == AdjustWindow(grown, utterance.end)
                 IN WindowLoop(utterances, i, j + 1, adjusted.utterances,
                      IF adjusted.end - windowStart >= 5000
                      THEN Append(pushed,
                                  WindowClip(adjusted.utterances, windowStart, adjusted.end))
                      ELSE pushed)
            ELSE WindowLoop(utterances, i, j + 1, grown, pushed)

\* the candidates of start index i; each holds the one windowUtterances array
\* of the iteration, so each shows the array as the loop left it
WindowClips(utterances, i) ==
  LET done == WindowLoop(utterances, i, i, <<>>, <<>>)
  IN [k \in 1..Len(done.clips) |-> [done.clips[k] EXCEPT !.utterances = done.utterances]]

\* the single-utterance candidate of index i (clipper.js:1420-1501)
SingleUtteranceClip(utterances, i) ==
  LET utterance == utterances[i]
      singleUtteranceDuration == utterance.end - utterance.start
      text == utterance.text
      boundaryIndex == LastBoundaryIndex(text)
      trimmed == ~EndsWithTerminator(Trim(text)) /\ boundaryIndex > 0
      adjustedEndTime ==
        IF trimmed
        THEN utterance.start + (singleUtteranceDuration * boundaryIndex) \div Len(text)
        ELSE utterance.end
      adjustedText == IF trimmed THEN Trim(SubSeq(text, 1, boundaryIndex)) ELSE text
      adjustedDuration == adjustedEndTime - utterance.start
      viralScore == ViralScoreOf(adjustedText)
  IN IF /\ singleUtteranceDuration >= 5000
        /\ singleUtteranceDuration <= 60000
        /\ WordCountOf(text) >= 10
        /\ TerminatorRuns(text) >= 1
        /\ adjustedDuration >= 5000
     THEN << [ start |-> utterance.start,
               end |-> adjustedEndTime,
               duration |-> adjustedDuration,
               text |-> adjustedText,
               wordCount |-> WordCountOf(adjustedText),
               sentenceCount |-> TerminatorRuns(adjustedText),
               utterances |-> <<utterance>>,
               qualityScore |-> UtteranceDurationScore(adjustedDuration)
                                + (ScoreOne \div 10) * TerminatorRuns(adjustedText)
                                + viralScore \div 2,
               viralScore |-> viralScore,
               completeEnding |-> TRUE,
               viralElements |-> ViralElementsOf(adjustedText) ] >>
     ELSE <<>>

\* potentialClips of identifyClipsFromUtterances (clipper.js:1287-1502)
UtterancePotentialClips(utterances) ==
  LET RECURSIVE UtteranceClipsFrom(_)
      UtteranceClipsFrom(i) ==
        IF i > Len(utterances) THEN <<>>
        ELSE WindowClips(utterances, i) \o SingleUtteranceClip(utterances, i)
             \o UtteranceClipsFrom(i + 1)
  IN UtteranceClipsFrom(1)

\* MAX_CLIPS_FOR_AI (clipper.js:1515)
MAX_CLIPS_FOR_AI == 40

\* the clips of one viral category added to the pool (clipper.js:1537-1550)
CategoryContribution(remainingClips, element) ==
  LET members == {c \in {remainingClips[i] : i \in 1..Len(remainingClips)} :
                    c.viralElements[element]}
      categoryClips == SortByQualityDesc(FilterSeq(remainingClips, members))
  IN Take(categoryClips, Min(Len(categoryClips), CeilDiv(MAX_CLIPS_FOR_AI * 125, 1000)))

\* clipsForAI before the shuffle (clipper.js:1512-1556)
UtteranceClipsForAI(potentialClips) ==
  LET sorted == SortByQualityDesc(potentialClips)
  IN Take(IF Len(sorted) > MAX_CLIPS_FOR_AI
          THEN Take(sorted, CeilDiv(MAX_CLIPS_FOR_AI, 2))
               \o CategoryContribution(Drop(sorted, CeilDiv(MAX_CLIPS_FOR_AI, 2)),
                                       "emotionalLanguage")
               \o CategoryContribution(Drop(sorted, CeilDiv(MAX_CLIPS_FOR_AI, 2)),
                                       "storyElement")
               \o CategoryContribution(Drop(sorted, CeilDiv(MAX_CLIPS_FOR_AI, 2)),
                                       "educationalValue")
               \o CategoryContribution(Drop(sorted, CeilDiv(MAX_CLIPS_FOR_AI, 2)),
                                       "curiosityHook")
          ELSE sorted,
          MAX_CLIPS_FOR_AI)

\* ------------------------------------------------------------------------
\* identifyClipsFromWords: the grouping of words (clipper.js:1053-1069)
\* a word is [text, start, end, speaker]; NoSpeaker is the initial null
NoSpeaker == "null"

WordsToUtterances(words) ==
  LET RECURSIVE GroupWords(_, _, _)
      GroupWords(k, currentUtterance, utterances) ==
        IF k > Len(words)
        THEN IF Len(currentUtterance.words) > 0
             THEN Append(utterances, currentUtterance)
             ELSE utterances
        ELSE
          LET word == words[k]
              flush == word.speaker # currentUtterance.speaker
                       /\ Len(currentUtterance.words) > 0
              base == IF flush
                      THEN [ words |-> <<>>, start |-> word.start, end |-> word.end,
                             text |-> <<>>, speaker |-> word.speaker ]
                      ELSE currentUtterance
          IN GroupWords(k + 1,
                        [ words |-> Append(base.words, word),
                          start |-> base.start,
                          end |-> word.end,
                          text |-> base.text \o word.text \o <<" ">>,
                          speaker |-> word.speaker ],
                        IF flush THEN Append(utterances, currentUtterance) ELSE utterances)
  IN GroupWords(1,
                [words |-> <<>>, start |-> 0, end |-> 0, text |-> <<>>, speaker |-> NoSpeaker],
                <<>>)

\* ------------------------------------------------------------------------
\* identifyClipsFromChapters (clipper.js:1732-1762)
\* a chapter is [headline, start, end], start and end in ms
ChapterClips(chapters) ==
  LET fits == {c \in {chapters[i] : i \in 1..Len(chapters)} :
                 /\ c.end - c.start >= CLIP_MIN_DURATION * 1000
                 /\ c.end - c.start <= CLIP_MAX_DURATION * 1000}
      kept == FilterSeq(chapters, fits)
  IN [i \in 1..Len(kept) |->
        [ start |-> kept[i].start,
          end |-> kept[i].end,
          duration |-> kept[i].end - kept[i].start,
          text |-> kept[i].headline,
          gist |-> <<>>,
          reason |-> ReasonDefault("Chapter", 0) ]]

\* ------------------------------------------------------------------------
\* identifyClips, the basic splitter (clipper.js:1769-1879)

\* the trim to the last sentence boundary (clipper.js:1800-1823, 1850-1871)
TrimBasicClip(currentClip) ==
  LET boundaryIndex == LastBoundaryIndex(currentClip.text)
      trimmedText == Trim(SubSeq(currentClip.text, 1, boundaryIndex))
      \* textRatio = boundaryIndex / currentClip.text.length, read after
      \* the text has been cut
      adjustedDuration == (currentClip.duration * boundaryIndex) \div Len(trimmedText)
  IN IF ~EndsWithTerminator(Trim(currentClip.text)) /\ boundaryIndex > 0
     THEN [currentClip EXCEPT !.text = trimmedText,
                              !.end = currentClip.start + adjustedDuration,
                              !.duration = adjustedDuration]
     ELSE currentClip

\* identifyClips on an object whose utterances are `utterances` (an empty
\* sequence when the object has none).  KeepBasicClip: the push guarded by
\* the minimum duration (clipper.js:1826-1828, 1874-1876); BasicClipOf: the
\* clip opened by an utterance (clipper.js:1782-1790, 1831-1837); BasicLoop:
\* the loop over the utterances and the handling of the last clip.
identifyClips(utterances) ==
  LET KeepBasicClip(clips, currentClip) ==
        IF currentClip.duration >= CLIP_MIN_DURATION * 1000
        THEN Append(clips, currentClip)
        ELSE clips
      BasicClipOf(utterance) ==
        [ start |-> utterance.start,
          end |-> utterance.end,
          text |-> utterance.text,
          reason |-> ReasonDefault("Basic clip identification", 0),
          duration |-> utterance.end - utterance.start ]
      RECURSIVE BasicLoop(_, _, _)
      BasicLoop(i, currentClip, clips) ==
        IF i > Len(utterances)
        THEN KeepBasicClip(clips, TrimBasicClip(currentClip))
        ELSE IF utterances[i].end - currentClip.start > CLIP_MAX_DURATION * 1000
             THEN BasicLoop(i + 1, BasicClipOf(utterances[i]),
                            KeepBasicClip(clips, TrimBasicClip(currentClip)))
             ELSE BasicLoop(i + 1,
                            [currentClip EXCEPT
                               !.end = utterances[i].end,
                               !.text = currentClip.text \o <<" ">> \o utterances[i].text,
                               !.duration = utterances[i].end - currentClip.start],
                            clips)
  IN IF Len(utterances) = 0 THEN <<>>
     ELSE Take(BasicLoop(2, BasicClipOf(utterances[1]), <<>>), 5)

\* ------------------------------------------------------------------------
\* Truthiness of the optional fields the source tests with `a.field &&`
\* the empty string is the reason tagged "empty"
HasQualityScore(clip) == HasField(clip, "qualityScore") /\ clip.qualityScore # 0
HasReason(clip) == HasField(clip, "reason") /\ clip.reason.tag # "empty"

\* { ...clip, field: value, ... }
Spread(clip, fields) == fields @@ clip

\* ------------------------------------------------------------------------
\* fallbackClipSelection (clipper.js:1886-2036); u: ticks per ms of the clips

\* letters standing for the keywords of the fallback scorer

CountCharsIn(text, chars) == Cardinality({i \in 1..Len(text) : text[i] \in chars})

FallbackViralScore(text) ==
  LET wordCount == WordCountOf(text)
  IN (IF Len(text) > 0 /\ text[1] \in KeywordLetters.narrative /\ Len(text) > 50
      THEN (ScoreOne * 3) \div 10 ELSE 0)
     + Min((ScoreOne * 4) \div 10, CountCharsIn(text, KeywordLetters.impact) * (ScoreOne \div 10))
     + Min((ScoreOne * 4) \div 10, CountCharsIn(text, KeywordLetters.study) * (ScoreOne \div 10))
     + (IF HasCharIn(text, KeywordLetters.twist) THEN (ScoreOne * 2) \div 10 ELSE 0)
     + (IF wordCount > 15 /\ wordCount < 50 THEN (ScoreOne * 2) \div 10 ELSE 0)

OneCategory(duration, u) == "short"

DurationCategory(duration, u) ==
  IF duration < 10000 * u THEN "very_short"
  ELSE IF duration < 20000 * u THEN "short"
  ELSE IF duration < 30000 * u THEN "medium"
  ELSE "long"

\* scoredClips (clipper.js:1895-1963); finalScore in units of 1/(10 ScoreOne)
ScoreForFallback(clip, u) ==
  LET viralScore == FallbackViralScore(clip.text)
  IN Spread(clip,
       [ viralScore |-> viralScore,
         finalScore |-> IF HasQualityScore(clip)
                        THEN 4 * clip.qualityScore + 6 * viralScore
                        ELSE 10 * viralScore,
         durationCategory |-> DurationCategory(clip.duration, u),
         reason |-> ReasonDefault(IF viralScore * 10 > ScoreOne * 5 THEN "High viral potential"
                                  ELSE IF viralScore * 10 > ScoreOne * 3
                                       THEN "Moderate viral potential"
                                       ELSE "Potential interest elements", 0) ])

\* an overlap test that never finds an overlap
NeverOverlaps(a, b) == FALSE

\* timeOverlap > shortestDuration * 0.4 (clipper.js:2005-2019)
FallbackOverlaps(a, b) ==
  LET timeOverlap == Max(0, Min(a.end, b.end) - Max(a.start, b.start))
      shortestDuration == Min(a.end - a.start, b.end - b.start)
  IN 10 * timeOverlap > 4 * shortestDuration

\* the indices fallbackClipSelection selects, in the order of the result.
\* CategoryIndices: the indices of a category, best finalScore first
\* (clipper.js:1966-1971); picks: the pick of each non-empty category
\* (clipper.js:1980-1985); TopUp: the top-up loop (clipper.js:2000-2024)
FallbackIndices(scoredClips) ==
  LET ByScore(indices) ==
        LET order == SortedIndicesDesc(
                       [k \in 1..Len(indices) |-> scoredClips[indices[k]].finalScore])
        IN [r \in 1..Len(indices) |-> indices[order[r]]]
      CategoryIndices(category) ==
        ByScore(FilterSeq([i \in 1..Len(scoredClips) |-> i],
                          {i \in 1..Len(scoredClips) :
                             scoredClips[i].durationCategory = category}))
      pick(category) ==
        IF Len(CategoryIndices(category)) > 0
        THEN <<CategoryIndices(category)[1]>>
        ELSE <<>>
      picks == pick("very_short") \o pick("short") \o pick("medium") \o pick("long")
      remainingClips ==
        ByScore(FilterSeq([i \in 1..Len(scoredClips) |-> i],
                          (1..Len(scoredClips)) \ {picks[k] : k \in 1..Len(picks)}))
      RECURSIVE TopUp(_, _)
      TopUp(selected, remaining) ==
        IF Len(selected) >= 5 \/ Len(remaining) = 0 THEN selected
        ELSE LET nextBest == remaining[1]
                 overlapsWithExisting ==
                   \E k \in 1..Len(selected) :
                     FallbackOverlaps(scoredClips[nextBest], scoredClips[selected[k]])
             IN TopUp(IF overlapsWithExisting THEN selected ELSE Append(selected, nextBest),
                      Tail(remaining))
  IN IF Len(picks) > 5 THEN Take(ByScore(picks), 5)
     ELSE TopUp(picks, remainingClips)

fallbackClipSelection(filteredClips, u) ==
  IF Len(filteredClips) = 0 THEN <<>>
  ELSE LET scoredClips == [i \in 1..Len(filteredClips) |->
                             ScoreForFallback(filteredClips[i], u)]
           chosen == FallbackIndices(scoredClips)
       IN [k \in 1..Len(chosen) |-> scoredClips[chosen[k]]]

\* ------------------------------------------------------------------------
\* analyzeClipsForQualityAndOverlap (clipper.js:975-1042)

\* the sort comparator (clipper.js:977-989) on the clips at indices a and b:
\* negative when a sorts before b
CompareClips(clips, a, b) ==
  IF HasQualityScore(clips[a]) /\ HasQualityScore(clips[b])
  THEN clips[b].qualityScore - clips[a].qualityScore
  ELSE IF HasReason(clips[a]) /\ ~HasReason(clips[b]) THEN 0 - 1
  ELSE IF ~HasReason(clips[a]) /\ HasReason(clips[b]) THEN 1
  ELSE a - b

\* [...clips].sort(comparator): the orders the sorted array can have, as
\* sequences of indices of clips.  The sort is stable.  When some clips have
\* a truthy score and some have none the comparator need not be a consistent
\* order, and the order of the result is then implementation-defined.
SortOutcomes(clips) ==
  LET n == Len(clips)
      Before(a, b) == \/ CompareClips(clips, a, b) < 0
                      \/ CompareClips(clips, a, b) = 0 /\ a < b
      consistent == \A a, b, c \in 1..n :
                      Before(a, b) /\ Before(b, c) => Before(a, c)
  IN IF consistent
     THEN {p \in ShuffleOutcomes(n) : \A k, l \in 1..n : k < l => Before(p[k], p[l])}
     ELSE ShuffleOutcomes(n)

\* an overlap test against the longer of the two clips, which C4 excludes
SignificantOverlapOfLonger(a, b) ==
  /\ Min(a.end, b.end) > Max(a.start, b.start)
  /\ 2 * (Min(a.end, b.end) - Max(a.start, b.start)) > Max(a.end - a.start, b.end - b.start)

\* overlapRatio > OVERLAP_THRESHOLD (clipper.js:1000-1014, 1021-1030)
SignificantOverlap(a, b) ==
  LET overlapStart == Max(a.start, b.start)
      overlapEnd == Min(a.end, b.end)
  IN /\ overlapEnd > overlapStart
     /\ 2 * (overlapEnd - overlapStart) > Min(a.end - a.start, b.end - b.start)

\* clip.qualityScore > overlappingClip.qualityScore * 1.2 (clipper.js:1032-1033)
SignificantlyBetter(clip, overlappingClip) ==
  /\ HasQualityScore(clip)
  /\ HasQualityScore(overlappingClip)
  /\ 10 * clip.qualityScore > 12 * overlappingClip.qualityScore

\* one iteration of the loop over sortedClips (clipper.js:995-1039).
\* finalClips is a sequence of [index, replaced]: the index of a clip in
\* clips, and whether it entered finalClips by replacing a kept clip.
ResolveClip(clips, finalClips, c) ==
  LET hits == {k \in 1..Len(finalClips) :
                 SignificantOverlap(clips[c], clips[finalClips[k].index])}
  IN IF hits = {}
     THEN Append(finalClips, [index |-> c, replaced |-> FALSE])
     ELSE LET k == CHOOSE x \in hits : \A y \in hits : x <= y
          IN IF SignificantlyBetter(clips[c], clips[finalClips[k].index])
             THEN [finalClips EXCEPT ![k] = [index |-> c, replaced |-> TRUE]]
             ELSE finalClips

\* the result for one outcome `order` of the sort
analyzeClipsForQualityAndOverlap(clips, order) ==
  LET RECURSIVE ResolveFrom(_, _)
      ResolveFrom(r, finalClips) ==
        IF r > Len(order) THEN finalClips
        ELSE ResolveFrom(r + 1, ResolveClip(clips, finalClips, order[r]))
      final == ResolveFrom(1, <<>>)
  IN [k \in 1..Len(final) |-> clips[final[k].index]]

\* ------------------------------------------------------------------------
\* The reply of the LLM and its parsing (clipper.js:320-466, 1595-1715)
\* In a reply each keyword of the protocol is one character:
\*   "S" SELECTED   "C" CLIP   "c" clip   "N" NUMBER   "L" SELECTION
\*   "V" VIRAL      "P" POTENTIAL         "T" TARGET   "A" AUDIENCE
\*   "D" DURATION   "E" EFFECTIVENESS
\* "0".."9" are digits, "#" ":" " " "\n" are themselves, "Z" is the letter Z
\* and every other character is ordinary text.
DigitChars == <<"0", "1", "2", "3", "4", "5", "6", "7", "8", "9">>
IsDigit(ch) == \E d \in 1..10 : DigitChars[d] = ch
DigitValue(ch) == (CHOOSE d \in 1..10 : DigitChars[d] = ch) - 1
ClipWords == {"C", "c"}       \* CLIP under the i flag

\* the character at index i, "" outside the text
At(text, i) == IF i \in 1..Len(text) THEN text[i] ELSE ""

\* the first index at or after i that holds no whitespace (\s* from i)
RECURSIVE SkipWhitespace(_, _)
SkipWhitespace(text, i) ==
  IF At(text, i) \in Whitespace THEN SkipWhitespace(text, i + 1) ELSE i

\* the last index of the run of digits that starts at i (\d+ from i)
RECURSIVE DigitsEnd(_, _)
DigitsEnd(text, i) == IF IsDigit(At(text, i + 1)) THEN DigitsEnd(text, i + 1) ELSE i

\* parseInt(digits, 10)
RECURSIVE ParseInt(_)
ParseInt(digits) ==
  IF Len(digits) = 0 THEN 0
  ELSE 10 * ParseInt(SubSeq(digits, 1, Len(digits) - 1)) + DigitValue(digits[Len(digits)])

\* text.indexOf(part), 1-based; 0 when part does not occur
IndexOf(text, part) ==
  LET hits == {p \in 1..(Len(text) - Len(part) + 1) :
                 SubSeq(text, p, p + Len(part) - 1) = part}
  IN IF hits = {} THEN 0 ELSE CHOOSE p \in hits : \A q \in hits : p <= q

\* a match object: match[0] (hasFull says whether it is null), the digits of
\* match[1], match[2] (hasGroup2 says whether it is set), and where it ends
NoMatch == [found |-> FALSE]

\* the index after an optional character of chars at index i ((?:#|NUMBER)?, :?)
OptionalChar(text, i, chars) == IF At(text, i) \in chars THEN i + 1 ELSE i

\* the least member of a set of positive integers, 0 for the empty set
Least(set) == IF set = {} THEN 0 ELSE CHOOSE x \in set : \A y \in set : x <= y

\* CLIP(?:\s+)(?:#|NUMBER)?(?:\s*):?\s*(\d+) with CLIP at index p: the index
\* where (\d+) has to start (clipper.js:323, 328)
ClipDigitsStart(text, p) ==
  SkipWhitespace(text,
    OptionalChar(text,
      SkipWhitespace(text, OptionalChar(text, SkipWhitespace(text, p + 1), {"#", "N"})),
      {":"}))

\* the match of one of the two patterns, from index `from` with CLIP at index p
ClipNumberAt(text, from, p) ==
  IF /\ At(text, p) \in ClipWords
     /\ SkipWhitespace(text, p + 1) > p + 1
     /\ IsDigit(At(text, ClipDigitsStart(text, p)))
  THEN [ found |-> TRUE, hasFull |-> TRUE,
         full |-> SubSeq(text, from, DigitsEnd(text, ClipDigitsStart(text, p))),
         digits |-> SubSeq(text, ClipDigitsStart(text, p),
                           DigitsEnd(text, ClipDigitsStart(text, p))),
         hasGroup2 |-> FALSE, group2 |-> <<>>,
         stop |-> DigitsEnd(text, ClipDigitsStart(text, p)) ]
  ELSE NoMatch

\* [...text.matchAll(regex)] for a pattern given by its match at every index:
\* the matches from left to right, each sought after the end of the one before
RECURSIVE MatchAll(_, _)
MatchAll(matchAt, p) ==
  IF p > Len(matchAt) THEN <<>>
  ELSE IF matchAt[p].found THEN <<matchAt[p]>> \o MatchAll(matchAt, matchAt[p].stop + 1)
  ELSE MatchAll(matchAt, p + 1)

\* SELECTED(?:\s+)CLIP... at index p (clipper.js:323)
SelectedClipAt(text, p) ==
  IF At(text, p) = "S" /\ SkipWhitespace(text, p + 1) > p + 1
  THEN ClipNumberAt(text, p, SkipWhitespace(text, p + 1))
  ELSE NoMatch

\* a second format that matches nowhere
NoPlainClipAt(text, p) == NoMatch

\* plain CLIP... at index p (clipper.js:328)
PlainClipAt(text, p) == ClipNumberAt(text, p, p)

\* /(?:CLIP|SELECTION)\s*(?:\d+|#\d+).*?\n.*?VIRAL\s*POTENTIAL\s*:(.+?)
\*  (?:\n\n|\nTARGET|\Z)/gis at index p (clipper.js:334).  Without the u flag
\* \Z is the letter Z.  The match object built from it (clipper.js:339-348) has
\* match[0] = null, match[1] = the first clip number of the text before
\* 'VIRAL POTENTIAL', which is the number the pattern's head matched, and
\* match[2] = the trimmed group.

\* the index of the colon of VIRAL\s*POTENTIAL\s*: with VIRAL at v, or 0
ViralHeaderColon(text, v) ==
  IF /\ At(text, v) = "V"
     /\ At(text, SkipWhitespace(text, v + 1)) = "P"
     /\ At(text, SkipWhitespace(text, SkipWhitespace(text, v + 1) + 1)) = ":"
  THEN SkipWhitespace(text, SkipWhitespace(text, v + 1) + 1)
  ELSE 0

\* the index where the digits of the head start: \s*(?:\d+|#\d+)
ContextualDigits(text, p) == OptionalChar(text, SkipWhitespace(text, p + 1), {"#"})

\* .*?\n after the digits that end at g: the first newline, or 0
FirstNewline(text, g) == Least({n \in (g + 1)..Len(text) : text[n] = "\n"})

\* .*?VIRAL\s*POTENTIAL\s*: after the newline at n: the colon of the first
\* header, or 0
FirstViralColon(text, n) ==
  ViralHeaderColon(text,
    Least({v \in (n + 1)..Len(text) : n # 0 /\ ViralHeaderColon(text, v) # 0}))

\* (.+?)(?:\n\n|\nTARGET|\Z) after the colon: where the terminator starts, or 0
FirstStop(text, colon) ==
  Least({k \in (colon + 2)..Len(text) :
           /\ colon # 0
           /\ \/ text[k] = "\n" /\ At(text, k + 1) \in {"\n", "T"}
              \/ text[k] \in {"Z", "z"}})

ContextualMatch(text, b, colon, k) ==
  IF k = 0 THEN NoMatch
  ELSE [ found |-> TRUE, hasFull |-> FALSE, full |-> <<>>,
         digits |-> SubSeq(text, b, DigitsEnd(text, b)),
         hasGroup2 |-> TRUE, group2 |-> Trim(SubSeq(text, colon + 1, k - 1)),
         stop |-> IF text[k] = "\n" THEN k + 1 ELSE k ]

ContextualAt(text, p) ==
  IF At(text, p) \in ClipWords \cup {"L"} /\ IsDigit(At(text, ContextualDigits(text, p)))
  THEN ContextualMatch(text, ContextualDigits(text, p),
         FirstViralColon(text,
           FirstNewline(text, DigitsEnd(text, ContextualDigits(text, p)))),
         FirstStop(text,
           FirstViralColon(text,
             FirstNewline(text, DigitsEnd(text, ContextualDigits(text, p))))))
  ELSE NoMatch

\* the first of the three lists of matches that is not empty (clipper.js:326,
\* 332); strategy is the format that produced it, 0 when none did
FirstFormat(first, second, third) ==
  IF Len(first) > 0 THEN [strategy |-> 1, matches |-> first]
  ELSE IF Len(second) > 0 THEN [strategy |-> 2, matches |-> second]
  ELSE IF Len(third) > 0 THEN [strategy |-> 3, matches |-> third]
  ELSE [strategy |-> 0, matches |-> <<>>]

\* selectedClipMatches after the three formats (clipper.js:323-350)
SelectedClipMatches(text) ==
  FirstFormat(MatchAll([p \in 1..Len(text) |-> SelectedClipAt(text, p)], 1),
              MatchAll([p \in 1..Len(text) |-> PlainClipAt(text, p)], 1),
              MatchAll([p \in 1..Len(text) |-> ContextualAt(text, p)], 1))

\* /HEAD\s*TAIL\s*:?\s*([\s\S]+?)(?:\n\nSTOP|\nSTOP|...|\n\n\s*$|$)/i applied
\* to context (clipper.js:375, 386, 395): the trimmed group of the first
\* match, hit = FALSE when there is none.  \s* is greedy and the group is
\* lazy, so the group starts at the first character after the whitespace and
\* gives a character back only when nothing else is left.
SectionStopAt(context, k, stopWords) ==
  \/ k = Len(context) + 1
  \/ At(context, k) = "\n" /\ At(context, k + 1) \in stopWords
  \/ At(context, k) = "\n" /\ At(context, k + 1) = "\n" /\ At(context, k + 2) \in stopWords
  \/ At(context, k) = "\n" /\ At(context, k + 1) = "\n"
       /\ SkipWhitespace(context, k + 2) = Len(context) + 1

\* the index of the first HEAD\s*TAIL that a character follows, or 0
SectionHeader(context, head, tail) ==
  Least({v \in 1..Len(context) :
           /\ context[v] = head
           /\ At(context, SkipWhitespace(context, v + 1)) = tail
           /\ SkipWhitespace(context, v + 1) < Len(context)})

\* the index where the group starts for the header at v
SectionGroupStart(context, v) ==
  Min(SkipWhitespace(context,
        OptionalChar(context,
          SkipWhitespace(context, SkipWhitespace(context, v + 1) + 1), {":"})),
      Len(context))

\* the trimmed group that starts at groupStart
SectionText(context, groupStart, stopWords) ==
  Trim(SubSeq(context, groupStart,
         Least({k \in (groupStart + 1)..(Len(context) + 1) :
                  SectionStopAt(context, k, stopWords)}) - 1))

ExtractSection(context, head, tail, stopWords) ==
  IF SectionHeader(context, head, tail) = 0 THEN [hit |-> FALSE, text |-> <<>>]
  ELSE [ hit |-> TRUE,
         text |-> SectionText(context,
                    SectionGroupStart(context, SectionHeader(context, head, tail)),
                    stopWords) ]

\* the context that is the whole reply, whatever the mention
WholeReply(aiResponseText, clipMention) == aiResponseText

\* contextAfter (clipper.js:370-372)
ContextAfter(aiResponseText, clipMention) ==
  IF IndexOf(aiResponseText, clipMention) = 0 THEN aiResponseText
  ELSE SubSeq(aiResponseText, IndexOf(aiResponseText, clipMention), Len(aiResponseText))

\* the object of a selected clip (clipper.js:374-417) from the three sections
\* found in contextAfter
SelectedClip(clip, clipNumber, match, potentialMatch, audienceMatch, durationMatch) ==
  Spread(clip,
    [ reason |-> IF potentialMatch.hit /\ Len(potentialMatch.text) > 0
                 THEN ReasonFromReply(potentialMatch.text)
                 ELSE IF ~potentialMatch.hit /\ match.hasGroup2 /\ Len(Trim(match.group2)) > 0
                 THEN ReasonFromReply(Trim(match.group2))
                 ELSE ReasonDefault("selected", clipNumber + 1),
      targetAudience |-> IF audienceMatch.hit /\ Len(audienceMatch.text) > 0
                         THEN audienceMatch.text ELSE <<"General audience">>,
      durationEffectiveness |-> IF durationMatch.hit THEN durationMatch.text ELSE <<>>,
      aiSelected |-> TRUE ])

\* the three sections of a context
SelectedClipIn(clip, clipNumber, match, contextAfter) ==
  SelectedClip(clip, clipNumber, match,
               ExtractSection(contextAfter, "V", "P", {"T", "S", "D"}),
               ExtractSection(contextAfter, "T", "A", {"S", "D"}),
               ExtractSection(contextAfter, "D", "E", {"S"}))

\* the mapping that takes the clip number for the index into the pool
SelectedClipOfNextClip(aiResponseText, clipsForAI, match) ==
  IF ParseInt(match.digits) >= 0 /\ ParseInt(match.digits) < Len(clipsForAI)
  THEN << SelectedClipIn(clipsForAI[ParseInt(match.digits) + 1], ParseInt(match.digits), match,
            ContextAfter(aiResponseText,
              IF match.hasFull /\ Len(match.full) > 0 THEN match.full
              ELSE <<"C", " ">> \o match.digits)) >>
  ELSE <<>>

\* the mapping of one match to a selected clip (clipper.js:363-418): the
\* empty sequence stands for the null that filter(Boolean) drops
SelectedClipOf(aiResponseText, clipsForAI, match) ==
  IF ParseInt(match.digits) - 1 >= 0 /\ ParseInt(match.digits) - 1 < Len(clipsForAI)
  THEN << SelectedClipIn(clipsForAI[ParseInt(match.digits)], ParseInt(match.digits) - 1, match,
            ContextAfter(aiResponseText,
              IF match.hasFull /\ Len(match.full) > 0 THEN match.full
              ELSE <<"C", " ">> \o match.digits)) >>
  ELSE <<>>

\* the concatenation of the sequences of a sequence
RECURSIVE Flatten(_)
Flatten(seqs) == IF Len(seqs) = 0 THEN <<>> ELSE Head(seqs) \o Flatten(Tail(seqs))

\* the mapping of the matches (clipper.js:353)
MapMatches(aiResponseText, clipsForAI, matches) ==
  [i \in 1..Len(matches) |-> SelectedClipOf(aiResponseText, clipsForAI, matches[i])]

\* selectedClips after the mapping and filter(Boolean) (clipper.js:353-419)
ParseSelectedClips(aiResponseText, clipsForAI) ==
  Flatten(MapMatches(aiResponseText, clipsForAI, SelectedClipMatches(aiResponseText).matches))

\* /(?:^|\n)(?:.*?)(CLIP|clip)\s+(\d+)(?:$|\n|:)/g (clipper.js:441).  No m
\* and no s flag: ^ and $ are the ends of the text and . stops at a newline.

\* the index where the digits of a mention end whose CLIP is at index q
MentionDigitsEnd(text, q) == DigitsEnd(text, SkipWhitespace(text, q + 1))

\* the index of CLIP of the mention whose line content starts at index
\* lineStart, or 0
MentionHead(text, lineStart) ==
  Least({q \in lineStart..Len(text) :
           /\ \A j \in lineStart..(q - 1) : text[j] # "\n"
           /\ text[q] \in ClipWords
           /\ SkipWhitespace(text, q + 1) > q + 1
           /\ IsDigit(At(text, SkipWhitespace(text, q + 1)))
           /\ At(text, MentionDigitsEnd(text, q) + 1) \in {"", "\n", ":"}})

\* the mention from index `from` whose CLIP is at index q
MentionMatch(text, from, q) ==
  IF q = 0 THEN NoMatch
  ELSE [ found |-> TRUE,
         full |-> SubSeq(text, from, Min(MentionDigitsEnd(text, q) + 1, Len(text))),
         stop |-> Min(MentionDigitsEnd(text, q) + 1, Len(text)) ]

MentionAt(text, p) ==
  IF p = 1 /\ MentionHead(text, 1) # 0 THEN MentionMatch(text, 1, MentionHead(text, 1))
  ELSE IF At(text, p) = "\n" THEN MentionMatch(text, p, MentionHead(text, p + 1))
  ELSE NoMatch

\* the characters that are not \w
NonWordChars == Whitespace \cup Terminators \cup Quotes \cup {"", "#", ":", ","}

\* where mention.match(/\b(\d+)\b/) starts, or 0
MentionNumberStart(mention) ==
  Least({i \in 1..Len(mention) :
           /\ IsDigit(mention[i])
           /\ At(mention, i - 1) \in NonWordChars
           /\ At(mention, DigitsEnd(mention, i) + 1) \in NonWordChars})

\* mention.match(/\b(\d+)\b/) then parseInt - 1; -1 without a match
\* (clipper.js:447-450)
MentionIndex(mention) ==
  IF MentionNumberStart(mention) = 0 THEN -1
  ELSE ParseInt(SubSeq(mention, MentionNumberStart(mention),
                       DigitsEnd(mention, MentionNumberStart(mention)))) - 1

\* [...new Set(indices)]
RECURSIVE Unique(_)
Unique(seq) ==
  IF Len(seq) = 0 THEN <<>>
  ELSE IF \E k \in 1..(Len(seq) - 1) : seq[k] = seq[Len(seq)]
       THEN Unique(SubSeq(seq, 1, Len(seq) - 1))
       ELSE Append(Unique(SubSeq(seq, 1, Len(seq) - 1)), seq[Len(seq)])

\* the indices of the mentions (clipper.js:446-451)
MentionIndices(mentionedClipNumbers) ==
  [k \in 1..Len(mentionedClipNumbers) |-> MentionIndex(mentionedClipNumbers[k].full)]

\* the clips of the unique indices (clipper.js:457-463)
ClipsOfIndices(clipsForAI, uniqueIndices) ==
  [k \in 1..Len(uniqueIndices) |->
     Spread(clipsForAI[uniqueIndices[k] + 1],
            [ reason |-> ReasonDefault("Mentioned by AI as Clip", uniqueIndices[k] + 1),
              aiSelected |-> TRUE ])]

\* the clips of the mentions (clipper.js:441-466)
MentionedClips(aiResponseText, clipsForAI) ==
  ClipsOfIndices(clipsForAI,
    Unique(FilterSeq(
      MentionIndices(MatchAll([p \in 1..Len(aiResponseText) |-> MentionAt(aiResponseText, p)], 1)),
      0..(Len(clipsForAI) - 1))))

\* what the inner try block comes to for the selected and the mentioned
\* clips: the returned clips, or the call of the fallback
ReplyOutcome(selectedClips, mentioned) ==
  IF Len(selectedClips) > 0 THEN [how |-> "selected", clips |-> selectedClips]
  ELSE IF Len(mentioned) > 0 THEN [how |-> "mentioned", clips |-> mentioned]
  ELSE [how |-> "fallback", clips |-> <<>>]

\* the inner try block for a reply (clipper.js:320-470, 1595-1715).  Only the
\* full-text path looks for mentions.
ParseReply(aiResponseText, clipsForAI, withMentions) ==
  ReplyOutcome(ParseSelectedClips(aiResponseText, clipsForAI),
               IF withMentions THEN MentionedClips(aiResponseText, clipsForAI) ELSE <<>>)

\* the matches of the k-th format in a reply (clipper.js:324, 329, 335)
StrategyMatches(aiResponseText, k) ==
  MatchAll([p \in 1..Len(aiResponseText) |->
              CASE k = 1 -> SelectedClipAt(aiResponseText, p)
                [] k = 2 -> PlainClipAt(aiResponseText, p)
                [] k = 3 -> ContextualAt(aiResponseText, p)], 1)

\* the strategies the inner try block consults for a reply: the second and
\* the third format when selectedClipMatches is still empty (clipper.js:327,
\* 333, 1602, 1608), the scan for mentions when selectedClips is empty after
\* the mapping (clipper.js:421-441), on the full-text path only
StrategiesConsulted(aiResponseText, clipsForAI, withMentions) ==
  {1}
  \cup (IF Len(StrategyMatches(aiResponseText, 1)) = 0 THEN {2} ELSE {})
  \cup (IF Len(StrategyMatches(aiResponseText, 1)) = 0
           /\ Len(StrategyMatches(aiResponseText, 2)) = 0 THEN {3} ELSE {})
  \cup (IF withMentions /\ Len(ParseSelectedClips(aiResponseText, clipsForAI)) = 0
        THEN {4} ELSE {})

\* createPromptForContentType (clipper.js:596-659).  The description of a
\* clip reads clip.impactFactors.hasQuestion (clipper.js:615), a TypeError
\* for a clip without impactFactors; `threw` says the call ends that way.
createPromptForContentType(contentType, filteredClips) ==
  [ threw |-> \E i \in 1..Len(filteredClips) : ~HasField(filteredClips[i], "impactFactors"),
    contentType |-> contentType,
    clipCount |-> 5,
    descriptions |-> [i \in 1..Len(filteredClips) |->
                        [ number |-> i,
                          complete |-> HasField(filteredClips[i], "endsWithCompleteSentence")
                                       /\ filteredClips[i].endsWithCompleteSentence ]] ]

\* ------------------------------------------------------------------------
\* Inputs

\* the largest number of sentences of a transcript text, and of utterances of
\* a transcript
MaxSentences == 3
MaxUtterances == 3

\* the i-th sentence of the texts: six words, and a space before every
\* sentence but the first; the third holds a keyword, a number and a question
SentenceOf(i) ==
  LET words == << <<"a", "c", "d", "e", "f", "g">>, <<"j", "o", "p", "r", "s", "t">>,
                  <<"u", "k", "n", "w", "x", "y">>, <<"z", "a", "d", "c", "g", "e">>,
                  <<"f", "j", "p", "o", "t", "r">> >>[((i - 1) % 5) + 1]
      body == JoinWithSpace([k \in 1..6 |-> <<words[k]>>])
  IN (IF i = 1 THEN <<>> ELSE <<" ">>) \o body \o (IF i % 3 = 0 THEN <<"?">> ELSE <<".">>)

RECURSIVE TextOf(_)
TextOf(k) == IF k = 0 THEN <<>> ELSE TextOf(k - 1) \o SentenceOf(k)

\* the i-th utterance: two words in three seconds
UtteranceOf(i) ==
  [ text |-> SubSeq(SentenceOf(i), IF i = 1 THEN 1 ELSE 2, IF i = 1 THEN 3 ELSE 4) \o <<".">>,
    start |-> 3000 * (i - 1),
    end |-> 3000 * i,
    speaker |-> "A" ]

UtterancesOf(k) == [i \in 1..k |-> UtteranceOf(i)]

\* a text without a sentence terminator
NoSentenceText == <<"a", " ", "c", " ", "d">>

\* two sentences, each followed by a closing quote
QuotedText == TextOf(1) \o <<"'">> \o SentenceOf(2) \o <<"'">>

\* three short sentences of fifteen words: the first of a words, the second
\* of b words, the third of the rest
FifteenWords ==
  <<"a", "c", "d", "e", "f", "g", "j", "o", "p", "r", "s", "t", "u", "w", "x">>
ShortSentencesText(a, b) ==
  JoinWithSpace([k \in 1..15 |->
    <<FifteenWords[k]>> \o (IF k \in {a, a + b} THEN <<".">>
                            ELSE IF k = 15 THEN <<"!">> ELSE <<>>)])

\* three sentences of 14, 14 and 6 words: five candidates
LongSentencesText ==
  JoinWithSpace([k \in 1..34 |->
    <<FifteenWords[((k - 1) % 15) + 1]>> \o (IF k \in {14, 28, 34} THEN <<".">> ELSE <<>>)])

\* one utterance longer than MAX_WINDOW
LongUtterance ==
  << [text |-> <<"a", " ", "c", ".">>, start |-> 0, end |-> 70000, speaker |-> "A"] >>

\* one utterance longer than every window, which ends after its last sentence
LongOpenUtterance ==
  << [ text |-> <<"a", " ", "c", ".", " ", "d">>, start |-> 0, end |-> 70000,
       speaker |-> "A" ] >>

\* a window whose last utterance ends after its last sentence
OpenUtterances ==
  << [text |-> <<"a", " ", "c", ".">>, start |-> 0, end |-> 4000, speaker |-> "A"],
     [text |-> <<"d", " ", "e", ".", " ", "f">>, start |-> 4000, end |-> 10000, speaker |-> "B"] >>

\* words of two speakers; the first word starts one second into the audio
WordsOfTwo ==
  << [text |-> <<"a">>, start |-> 1000, end |-> 3000, speaker |-> "A"],
     [text |-> <<"c">>, start |-> 3000, end |-> 5000, speaker |-> "A"],
     [text |-> <<"d", ".">>, start |-> 5000, end |-> 7000, speaker |-> "A"],
     [text |-> <<"e", ".">>, start |-> 7000, end |-> 9000, speaker |-> "B"] >>

ShortWords == << [text |-> <<"a", ".">>, start |-> 1000, end |-> 3000, speaker |-> "A"] >>

\* chapters inside and outside [CLIP_MIN_DURATION, CLIP_MAX_DURATION]
ChaptersInside ==
  << [headline |-> <<"a", " ", "c">>, start |-> 0, end |-> 9000],
     [headline |-> <<"d">>, start |-> 9000, end |-> 12000],
     [headline |-> <<"e">>, start |-> 12000, end |-> 42000] >>
ChaptersOutside == << [headline |-> <<"a">>, start |-> 0, end |-> 3000] >>

\* null, and the object without fields
Null == [null |-> TRUE]
IsNull(value) == HasField(value, "null")
EmptyObject == [field \in {} |-> TRUE]

\* the transcripts the pipeline is run on
Transcripts ==
  [k \in 1..MaxSentences |-> [text |-> TextOf(k)]]
  \o [k \in 1..MaxSentences |-> [text |-> TextOf(k), audio_duration |-> 4800]]
  \o [k \in 1..MaxSentences |-> [text |-> TextOf(k), audioDuration |-> 9600]]
  \o [k \in 1..MaxUtterances |-> [utterances |-> UtterancesOf(k)]]
  \o << [text |-> NoSentenceText],
        [text |-> QuotedText],
        [text |-> ShortSentencesText(5, 5)],
        [text |-> ShortSentencesText(13, 1)],
        [text |-> ShortSentencesText(1, 13)],
        [text |-> ShortSentencesText(1, 1)],
        [text |-> LongSentencesText],
        [text |-> NoSentenceText, utterances |-> UtterancesOf(MaxUtterances)],
        [text |-> TextOf(1), utterances |-> UtterancesOf(MaxUtterances)],
        [ text |-> TextOf(2), utterances |-> UtterancesOf(2), words |-> WordsOfTwo,
          chapters |-> ChaptersInside ],
        [text |-> <<>>, utterances |-> UtterancesOf(2), audio_duration |-> 6000],
        [utterances |-> UtterancesOf(2), words |-> WordsOfTwo, chapters |-> ChaptersInside],
        [utterances |-> LongUtterance],
        [utterances |-> OpenUtterances],
        [utterances |-> LongOpenUtterance],
        [utterances |-> <<>>, words |-> WordsOfTwo, chapters |-> ChaptersInside],
        [words |-> WordsOfTwo],
        [words |-> ShortWords],
        [words |-> <<>>, chapters |-> ChaptersInside],
        [chapters |-> ChaptersInside],
        [chapters |-> ChaptersOutside],
        [text |-> <<>>, utterances |-> <<>>, words |-> <<>>, chapters |-> <<>>],
        [audio_duration |-> 4800],
        EmptyObject,
        Null >>

\* x CLIP 2 x CLIP 5 x / VIRAL POTENTIAL: x
MentionsInSentence ==
  << "x", " ", "C", " ", "2", " ", "x", " ", "C", " ", "5", " ", "x", "\n",
     "V", " ", "P", ":", " ", "x" >>

\* the replies of the LLM the pipeline is run on
Replies ==
  << \* SELECTED CLIP #: 1 / VIRAL POTENTIAL: x / TARGET AUDIENCE: x
     << "S", " ", "C", " ", "#", ":", " ", "1", "\n", "V", " ", "P", ":", " ", "x", "\n",
        "T", " ", "A", ":", " ", "x" >>,
     \* SELECTED CLIP 1 / SELECTED CLIP 2
     <<"S", " ", "C", " ", "1", "\n", "S", " ", "C", " ", "2">>,
     \* x CLIP 2 x
     <<"x", " ", "C", " ", "2", " ", "x">>,
     \* SELECTION 2 x / VIRAL POTENTIAL: x / /
     <<"L", " ", "2", " ", "x", "\n", "V", " ", "P", ":", " ", "x", "\n", "\n">>,
     \* SELECTED CLIP #: 9
     <<"S", " ", "C", " ", "#", ":", " ", "9">>,
     \* x 1 x: CLIP 9 /
     <<"x", " ", "1", " ", "x", ":", " ", "C", " ", "9", "\n">>,
     \* SELECTED CLIP 0 / SELECTED CLIP 1
     <<"S", " ", "C", " ", "0", "\n", "S", " ", "C", " ", "1">>,
     \* x 0 x: CLIP 9 /
     <<"x", " ", "0", " ", "x", ":", " ", "C", " ", "9", "\n">>,
     \* SELECTED CLIP #: 2 / VIRAL POTENTIAL: x y / / TARGET AUDIENCE: x /
     \* DURATION EFFECTIVENESS: x / / SELECTED CLIP #: 1 / VIRAL POTENTIAL: / x / x
     << "S", " ", "C", " ", "#", ":", " ", "2", "\n", "V", " ", "P", ":", " ", "x", " ", "y",
        " ", "\n", "\n", "T", " ", "A", ":", " ", "x", "\n", "D", " ", "E", ":", " ", "x",
        "\n", "\n", "S", " ", "C", " ", "#", ":", " ", "1", "\n", "V", " ", "P", ":", "\n",
        " ", "x", "\n", "x" >>,
     MentionsInSentence,
     \* SELECTED CLIP 1 / SELECTED CLIP 1
     <<"S", " ", "C", " ", "1", "\n", "S", " ", "C", " ", "1">>,
     \* x
     <<"x">> >>

\* ------------------------------------------------------------------------
\* State

VARIABLES
  entry,           \* who calls identifyClipsWithAI: "main", or "direct" for a
                   \* caller of the exported function
  transcript,      \* the transcript value of the run; in the run of
                   \* createPotentialClips alone, its arguments; in the run of
                   \* pollForTranscriptionCompletion alone, transcription
  pc,              \* where the run is
  calls,           \* the functions entered so far, in order
  utterances,      \* the argument of identifyClipsFromUtterances / identifyClips
  potentialClips,  \* the candidates of the generator that ran (on the text
                   \* path after the validation of the timestamps); in the run
                   \* of getDiverseClipSelectionWithDurations alone, scoredClips
  clipsForAI,      \* the pool, after the shuffle
  unit,            \* ticks per ms of the times of the clips
  aiResponse,      \* what the LLM call came to: [kind, text]
  clips,           \* the list identifyClipsWithAI returned; in the run of
                   \* analyzeClipsForQualityAndOverlap or of generateClips
                   \* alone, its argument
  generated,       \* [called, clips]: the call of generateClips by main
  sortedClips,     \* analyzeClipsForQualityAndOverlap: the sorted clips not yet
                   \* looked at, as indices of clips
  finalClips,      \* analyzeClipsForQualityAndOverlap: finalClips, as
                   \* [index, replaced]
  maxClips,        \* getDiverseClipSelectionWithDurations: its argument maxClips
  validatedClips,  \* generateClips: validatedClips
  results,         \* generateClips: results, one [success, clip] for each
                   \* call of generateClip
  options,         \* main: program.opts(), the two skip flags
  exists,          \* main: videoExists, audioExists, transcriptExists
  disk,            \* main: the files that exist at videoPath, audioPath and
                   \* transcriptPath
  provider         \* pollForTranscriptionCompletion: what the transcription
                   \* service will answer to the checks to come

vars == << entry, transcript, pc, calls, utterances, potentialClips, clipsForAI, unit,
           aiResponse, clips, generated, sortedClips, finalClips, maxClips,
           validatedClips, results, options, exists, disk, provider >>

\* no flag given, no file there, a service that is not asked
NoOptions == [skipDownload |-> FALSE, skipTranscription |-> FALSE]
NoFiles == [video |-> FALSE, audio |-> FALSE, transcript |-> FALSE]
NoProvider == [pending |-> <<>>, final |-> "none"]

NoResponse == [kind |-> "none", text |-> <<>>]
NotGenerated == [called |-> FALSE, clips |-> <<>>]

\* the number of times function f has been entered
CallCount(f) == Cardinality({i \in 1..Len(calls) : calls[i] = f})

Init ==
  /\ entry \in {"main", "direct"}
  /\ \E i \in 1..Len(Transcripts) : transcript = Transcripts[i]
  /\ pc = "start"
  /\ calls = <<>>
  /\ utterances = <<>>
  /\ potentialClips = <<>>
  /\ clipsForAI = <<>>
  /\ unit = 1
  /\ aiResponse = NoResponse
  /\ clips = <<>>
  /\ generated = NotGenerated
  /\ sortedClips = <<>>
  /\ finalClips = <<>>
  /\ maxClips = 0
  /\ validatedClips = <<>>
  /\ results = <<>>
  /\ options = NoOptions
  /\ exists = NoFiles
  /\ disk = NoFiles
  /\ provider = NoProvider

\* a function returns `result` to the caller of identifyClipsWithAI
Return(result) ==
  /\ pc' = "returned"
  /\ clips' = result

\* main, step 4 (part_000:141-143, 158-160), or the direct call
CallIdentifyClipsWithAI ==
  /\ pc = "start"
  /\ pc' = IF entry = "main" /\ IsNull(transcript) THEN "done" ELSE "identifyClipsWithAI"
  /\ UNCHANGED << options, exists, disk, provider, maxClips, validatedClips, results,
                  entry, transcript, calls, utterances, potentialClips, clipsForAI, unit,
                  aiResponse, clips, generated, sortedClips, finalClips >>

\* identifyClipsWithAI (clipper.js:26-46)
NonEmptyField(t, f) == ~IsNull(t) /\ HasField(t, f) /\ Len(t[f]) > 0

\* a dispatcher that looks at the utterances before the text, which C6
\* excludes
identifyClipsWithAIUtterancesFirst ==
  /\ pc = "identifyClipsWithAI"
  /\ calls' = Append(calls, "identifyClipsWithAI")
  /\ pc' = IF NonEmptyField(transcript, "utterances") THEN "identifyClipsFromUtterances"
           ELSE IF NonEmptyField(transcript, "text") THEN "identifyClipsFromFullText"
           ELSE IF NonEmptyField(transcript, "words") THEN "identifyClipsFromWords"
           ELSE IF NonEmptyField(transcript, "chapters") THEN "identifyClipsFromChapters"
           ELSE "identifyClips"
  /\ utterances' = IF pc' = "identifyClipsFromUtterances" THEN transcript.utterances
                   ELSE <<>>
  /\ UNCHANGED << options, exists, disk, provider, maxClips, validatedClips, results,
                  entry, transcript, potentialClips, clipsForAI, unit, aiResponse, clips,
                  generated, sortedClips, finalClips >>

identifyClipsWithAI ==
  /\ pc = "identifyClipsWithAI"
  /\ calls' = Append(calls, "identifyClipsWithAI")
  /\ pc' = IF NonEmptyField(transcript, "text") THEN "identifyClipsFromFullText"
           ELSE IF NonEmptyField(transcript, "utterances") THEN "identifyClipsFromUtterances"
           ELSE IF NonEmptyField(transcript, "words") THEN "identifyClipsFromWords"
           ELSE IF NonEmptyField(transcript, "chapters") THEN "identifyClipsFromChapters"
           ELSE "identifyClips"
  /\ utterances' = IF pc' = "identifyClipsFromUtterances" THEN transcript.utterances
                   ELSE <<>>
  /\ UNCHANGED << options, exists, disk, provider, maxClips, validatedClips, results,
                  entry, transcript, potentialClips, clipsForAI, unit, aiResponse, clips,
                  generated, sortedClips, finalClips >>

\* identifyClipsFromFullText up to the prompt (clipper.js:155-294)
identifyClipsFromFullText ==
  /\ pc = "identifyClipsFromFullText"
  /\ calls' = Append(calls, "identifyClipsFromFullText")
  /\ unit' = TextUnit(transcript)
  /\ IF Len(Sentences(transcript.text)) = 0
     THEN /\ Return(<<>>)
          /\ UNCHANGED << potentialClips, clipsForAI >>
     ELSE /\ potentialClips' = ValidatedClips(transcript)
          /\ \E p \in ShuffleOutcomes(Len(TextClipsForAI(potentialClips', unit'))) :
               clipsForAI' = Take(Shuffled(TextClipsForAI(potentialClips', unit'), p),
                                  CLIPS_FOR_AI)
          /\ IF Len(clipsForAI') = 0
             THEN Return(<<>>)
             ELSE pc' = "createPromptForContentType" /\ UNCHANGED clips
  /\ UNCHANGED << options, exists, disk, provider, maxClips, validatedClips, results,
                  entry, transcript, utterances, aiResponse, generated, sortedClips,
                  finalClips >>

\* identifyClipsFromWords (clipper.js:1049-1073)
identifyClipsFromWords ==
  /\ pc = "identifyClipsFromWords"
  /\ calls' = Append(calls, "identifyClipsFromWords")
  /\ utterances' = WordsToUtterances(transcript.words)
  /\ pc' = "identifyClipsFromUtterances"
  /\ UNCHANGED << options, exists, disk, provider, maxClips, validatedClips, results,
                  entry, transcript, potentialClips, clipsForAI, unit, aiResponse, clips,
                  generated, sortedClips, finalClips >>

\* identifyClipsFromUtterances up to the prompt (clipper.js:1280-1569)
identifyClipsFromUtterances ==
  /\ pc = "identifyClipsFromUtterances"
  /\ calls' = Append(calls, "identifyClipsFromUtterances")
  /\ potentialClips' = UtterancePotentialClips(utterances)
  /\ IF Len(potentialClips') = 0
     THEN pc' = "identifyClips" /\ UNCHANGED clipsForAI
     ELSE /\ \E p \in ShuffleOutcomes(Len(UtteranceClipsForAI(potentialClips'))) :
               clipsForAI' = Shuffled(UtteranceClipsForAI(potentialClips'), p)
          /\ pc' = "createPromptForContentType"
  /\ UNCHANGED << options, exists, disk, provider, maxClips, validatedClips, results,
                  entry, transcript, utterances, unit, aiResponse, clips, generated,
                  sortedClips, finalClips >>

\* identifyClipsFromChapters (clipper.js:1732-1762)
identifyClipsFromChapters ==
  /\ pc = "identifyClipsFromChapters"
  /\ calls' = Append(calls, "identifyClipsFromChapters")
  /\ potentialClips' = ChapterClips(transcript.chapters)
  /\ IF Len(potentialClips') = 0
     THEN pc' = "identifyClips" /\ UNCHANGED clips
     ELSE Return(Take(potentialClips', 5))
  /\ UNCHANGED << options, exists, disk, provider, maxClips, validatedClips, results,
                  entry, transcript, utterances, clipsForAI, unit, aiResponse, generated,
                  sortedClips, finalClips >>

\* identifyClips (clipper.js:1769-1879), called with the transcript by
\* identifyClipsWithAI, with { utterances } by identifyClipsFromUtterances and
\* with { chapters } by identifyClipsFromChapters; reading a field of null
\* is a TypeError, which nothing catches before the caller
identifyClipsBasic ==
  /\ pc = "identifyClips"
  /\ calls' = Append(calls, "identifyClips")
  /\ IF IsNull(transcript)
     THEN pc' = "raised" /\ UNCHANGED << potentialClips, clips >>
     ELSE /\ potentialClips' = identifyClips(utterances)
          /\ Return(potentialClips')
  /\ UNCHANGED << options, exists, disk, provider, maxClips, validatedClips, results,
                  entry, transcript, utterances, clipsForAI, unit, aiResponse, generated,
                  sortedClips, finalClips >>

\* the call of createPromptForContentType inside the try block
\* (clipper.js:290-295, 1566-1570); the catch block at its end takes a
\* TypeError to fallbackClipSelection (clipper.js:476-479, 1721-1724)
onTextPath == \E i \in 1..Len(calls) : calls[i] = "identifyClipsFromFullText"

CreatePrompt ==
  /\ pc = "createPromptForContentType"
  /\ calls' = Append(calls, "createPromptForContentType")
  /\ pc' = IF createPromptForContentType(
                IF onTextPath THEN detectContentType(transcript.text) ELSE "generic",
                clipsForAI).threw
           THEN "fallbackClipSelection"
           ELSE "createChatCompletion"
  /\ UNCHANGED << options, exists, disk, provider, maxClips, validatedClips, results,
                  entry, transcript, utterances, potentialClips, clipsForAI, unit,
                  aiResponse, clips, generated, sortedClips, finalClips >>

\* a pipeline that calls the LLM again after an error, which C2 excludes
CreateChatCompletionWithRetry ==
  /\ pc = "createChatCompletion"
  /\ calls' = Append(calls, "createChatCompletion")
  /\ \/ /\ aiResponse' = [kind |-> "throw", text |-> <<>>]
        /\ pc' = IF aiResponse.kind = "throw" THEN "fallbackClipSelection"
                 ELSE "createChatCompletion"
     \/ /\ \E i \in 1..Len(Replies) : aiResponse' = [kind |-> "reply", text |-> Replies[i]]
        /\ pc' = "parse"
  /\ UNCHANGED << options, exists, disk, provider, maxClips, validatedClips, results,
                  entry, transcript, utterances, potentialClips, clipsForAI, unit, clips,
                  generated, sortedClips, finalClips >>

\* openai.createChatCompletion and the reading of the reply (clipper.js:298-312,
\* 1573-1587): the call throws, or it returns without a text to parse
\* (no choices: a TypeError in the outer try; a null content: a TypeError in
\* the inner try), or it returns a reply
CreateChatCompletion ==
  /\ pc = "createChatCompletion"
  /\ calls' = Append(calls, "createChatCompletion")
  /\ \/ /\ \E kind \in {"throw", "malformed"} : aiResponse' = [kind |-> kind, text |-> <<>>]
        /\ pc' = "fallbackClipSelection"
     \/ /\ \E i \in 1..Len(Replies) : aiResponse' = [kind |-> "reply", text |-> Replies[i]]
        /\ pc' = "parse"
  /\ UNCHANGED << options, exists, disk, provider, maxClips, validatedClips, results,
                  entry, transcript, utterances, potentialClips, clipsForAI, unit, clips,
                  generated, sortedClips, finalClips >>

\* the parsing of the reply (clipper.js:320-470, 1595-1715)
ParseResponse ==
  /\ pc = "parse"
  /\ LET parsed == ParseReply(aiResponse.text, clipsForAI, onTextPath)
     IN IF parsed.how = "fallback"
        THEN pc' = "fallbackClipSelection" /\ UNCHANGED clips
        ELSE Return(parsed.clips)
  /\ UNCHANGED << options, exists, disk, provider, maxClips, validatedClips, results,
                  entry, transcript, calls, utterances, potentialClips, clipsForAI, unit,
                  aiResponse, generated, sortedClips, finalClips >>

\* return fallbackClipSelection(clipsForAI) (clipper.js:470, 474, 478, 1715,
\* 1719, 1723)
FallbackClipSelection ==
  /\ pc = "fallbackClipSelection"
  /\ calls' = Append(calls, "fallbackClipSelection")
  /\ Return(fallbackClipSelection(clipsForAI, unit))
  /\ UNCHANGED << options, exists, disk, provider, maxClips, validatedClips, results,
                  entry, transcript, utterances, potentialClips, clipsForAI, unit,
                  aiResponse, generated, sortedClips, finalClips >>

\* main, steps 4 and 5 after identifyClipsWithAI has returned
\* (part_000:143-157)
MainGenerateClips ==
  /\ pc = "returned"
  /\ entry = "main"
  /\ pc' = "done"
  /\ IF Len(clips) > 0
     THEN /\ generated' = [called |-> TRUE, clips |-> clips]
          /\ calls' = Append(calls, "generateClips")
     ELSE UNCHANGED << generated, calls >>
  /\ UNCHANGED << options, exists, disk, provider, maxClips, validatedClips, results,
                  entry, transcript, utterances, potentialClips, clipsForAI, unit,
                  aiResponse, clips, sortedClips, finalClips >>

Next ==
  \/ CallIdentifyClipsWithAI
  \/ identifyClipsWithAI
  \/ identifyClipsFromFullText
  \/ identifyClipsFromWords
  \/ identifyClipsFromUtterances
  \/ identifyClipsFromChapters
  \/ identifyClipsBasic
  \/ CreatePrompt
  \/ CreateChatCompletion
  \/ ParseResponse
  \/ FallbackClipSelection
  \/ MainGenerateClips

Spec == Init /\ [][Next]_vars

\* ------------------------------------------------------------------------
\* analyzeClipsForQualityAndOverlap on its own: no caller of the repository
\* reaches it, so it is run on the lists a caller could hand to it

\* the longest list
MaxClips == 3

\* the windows of the clips, in seconds: the third overlaps each of the other
\* two by 6 s of 10 s
ClipWindows == { [start |-> 0, end |-> 10], [start |-> 10, end |-> 20],
                 [start |-> 4, end |-> 16] }

\* what a clip carries besides its window: a reason and no score, or a score
\* (in 1/ScoreOne) and no reason
ClipMarks == { [reason |-> ReasonDefault("selected", 1)], [qualityScore |-> 0],
               [qualityScore |-> 0 - 5500], [qualityScore |-> 0 - 5000],
               [qualityScore |-> 5000], [qualityScore |-> 9000] }

ClipLists ==
  UNION { [1..n -> {Spread(w, m) : w \in ClipWindows, m \in ClipMarks}] : n \in 1..MaxClips }

InitOverlap ==
  /\ entry = "analyzeClipsForQualityAndOverlap"
  /\ transcript = Null
  /\ pc = "sort"
  /\ calls = <<>>
  /\ utterances = <<>>
  /\ potentialClips = <<>>
  /\ clipsForAI = <<>>
  /\ unit = 1
  /\ aiResponse = NoResponse
  /\ clips \in ClipLists
  /\ generated = NotGenerated
  /\ sortedClips = <<>>
  /\ finalClips = <<>>
  /\ maxClips = 0
  /\ validatedClips = <<>>
  /\ results = <<>>
  /\ options = NoOptions
  /\ exists = NoFiles
  /\ disk = NoFiles
  /\ provider = NoProvider

\* const sortedClips = [...clips].sort(...); const finalClips = []
\* (clipper.js:977-992)
SortClips ==
  /\ pc = "sort"
  /\ sortedClips' \in SortOutcomes(clips)
  /\ finalClips' = <<>>
  /\ pc' = "loop"
  /\ UNCHANGED << options, exists, disk, provider, maxClips, validatedClips, results,
                  entry, transcript, calls, utterances, potentialClips, clipsForAI, unit,
                  aiResponse, clips, generated >>

\* one iteration of for (const clip of sortedClips) (clipper.js:995-1039)
ResolveNextClip ==
  /\ pc = "loop"
  /\ Len(sortedClips) > 0
  /\ finalClips' = ResolveClip(clips, finalClips, Head(sortedClips))
  /\ sortedClips' = Tail(sortedClips)
  /\ UNCHANGED << options, exists, disk, provider, maxClips, validatedClips, results,
                  entry, transcript, pc, calls, utterances, potentialClips, clipsForAI,
                  unit, aiResponse, clips, generated >>

\* return finalClips (clipper.js:1041)
ReturnFinalClips ==
  /\ pc = "loop"
  /\ Len(sortedClips) = 0
  /\ pc' = "resolved"
  /\ UNCHANGED << options, exists, disk, provider, maxClips, validatedClips, results,
                  entry, transcript, calls, utterances, potentialClips, clipsForAI, unit,
                  aiResponse, clips, generated, sortedClips, finalClips >>

NextOverlap ==
  \/ SortClips
  \/ ResolveNextClip
  \/ ReturnFinalClips

SpecOverlap == InitOverlap /\ [][NextOverlap]_vars

\* ------------------------------------------------------------------------
\* fallbackClipSelection run on its own (clipper.js:1886-2036)

\* the largest pool
MaxPool == 6

\* a clip of a pool: times in ms
PoolClip(start, end, text) ==
  [text |-> text, start |-> start, end |-> end, duration |-> end - start]

\* the clips the pools are made of.  By duration: 1, 5, 6 are very short,
\* 2, 7, 8, 9 short, 3 medium, 4 long.  5 overlaps 1 by 6 s of 7 s, 8
\* overlaps 2 by 6 s of 10 s, 9 overlaps 3 by 4 s of 10 s; no other two share
\* more than a tenth of the shorter one.  "v" is a word of emotional impact,
\* "b" a word of contrast.
PoolCatalogue ==
  << PoolClip(0, 8000, <<"a">>),
     PoolClip(10000, 25000, <<"v">>),
     PoolClip(30000, 55000, <<"b">>),
     PoolClip(60000, 100000, <<"a">>),
     PoolClip(2000, 9000, <<"v", " ", "v", " ", "v">>),
     Spread(PoolClip(100000, 108000, <<"v">>), [qualityScore |-> 5000]),
     PoolClip(110000, 125000, <<"a">>),
     PoolClip(19000, 29000, <<"b">>),
     PoolClip(51000, 61000, <<"v">>) >>

\* the members of a set of indices in ascending order
Ascending(set) ==
  [r \in 1..Cardinality(set) |-> CHOOSE i \in set : Cardinality({j \in set : j < i}) = r - 1]

\* the pools: up to MaxPool clips of the catalogue, in its order or reversed
Pools ==
  UNION { { [r \in 1..Cardinality(set) |-> PoolCatalogue[Ascending(set)[r]]],
            [r \in 1..Cardinality(set) |->
               PoolCatalogue[Ascending(set)[Cardinality(set) + 1 - r]]] } :
          set \in {x \in SUBSET (1..Len(PoolCatalogue)) :
                     Cardinality(x) >= 1 /\ Cardinality(x) <= MaxPool} }

InitFallback ==
  /\ entry = "fallbackClipSelection"
  /\ transcript = Null
  /\ pc = "fallbackClipSelection"
  /\ calls = <<>>
  /\ utterances = <<>>
  /\ potentialClips = <<>>
  /\ clipsForAI \in Pools
  /\ unit = 1
  /\ aiResponse = NoResponse
  /\ clips = <<>>
  /\ generated = NotGenerated
  /\ sortedClips = <<>>
  /\ finalClips = <<>>
  /\ maxClips = 0
  /\ validatedClips = <<>>
  /\ results = <<>>
  /\ options = NoOptions
  /\ exists = NoFiles
  /\ disk = NoFiles
  /\ provider = NoProvider

NextFallback == FallbackClipSelection

SpecFallback == InitFallback /\ [][NextFallback]_vars

\* ------------------------------------------------------------------------
\* getDiverseClipSelectionWithDurations (clipper.js:693-806): no caller of the
\* repository reaches it (filterClipsForQuality, which calls it with maxClips
\* 15, is itself only exported), so it is run on the lists a caller could hand
\* to it.  Times are in seconds, as in the function.

\* String.prototype.includes
Includes(text, part) == IndexOf(text, part) # 0

\* durationBuckets (clipper.js:720-726)
durationBuckets ==
  << [min |-> 5, max |-> 10], [min |-> 10, max |-> 15], [min |-> 15, max |-> 20],
     [min |-> 20, max |-> 30], [min |-> 30, max |-> 60] >>

\* the bucket a clip is pushed to: the first whose bounds, both inclusive, hold
\* the duration; 0 when no bucket does (clipper.js:729-736)
BucketOf(duration) ==
  Least({b \in DOMAIN durationBuckets :
           duration >= durationBuckets[b].min /\ duration <= durationBuckets[b].max})

\* clipsByCompleteness.complete (clipper.js:696)
CompleteClips(scoredClips) ==
  FilterSeq(scoredClips, {scoredClips[i] : i \in {j \in DOMAIN scoredClips :
                                                   scoredClips[j].endsWithCompleteSentence}})

\* preferredClips (clipper.js:702-704)
preferredClips(scoredClips, max) ==
  IF Len(CompleteClips(scoredClips)) >= CeilDiv(max, 2)
  THEN CompleteClips(scoredClips)
  ELSE scoredClips

\* Math.ceil(maxClips * 0.2) (clipper.js:714, 717)
TopCount(max) == CeilDiv(max, 5)

\* the clips of the buckets, each bucket sorted by quality score
\* (clipper.js:729-741)
BucketClips(remainingClips) ==
  [b \in DOMAIN durationBuckets |->
     SortByQualityDesc(
       FilterSeq(remainingClips,
                 {remainingClips[i] : i \in {j \in DOMAIN remainingClips :
                                              BucketOf(remainingClips[j].duration) = b}}))]

\* the first clipsPerBucket clips of every bucket, then the best of the others
\* while slots remain (clipper.js:754-772)
FillSlots(buckets, remainingSlots, clipsPerBucket) ==
  Flatten([b \in DOMAIN buckets |-> Take(buckets[b], clipsPerBucket)])
  \o Take(SortByQualityDesc(Flatten([b \in DOMAIN buckets |->
                                       Drop(buckets[b], clipsPerBucket)])),
          Max(0, remainingSlots
                   - Len(Flatten([b \in DOMAIN buckets |->
                                    Take(buckets[b], clipsPerBucket)]))))

\* selectedFromBuckets (clipper.js:744-773)
selectedFromBuckets(buckets, remainingSlots) ==
  IF Len(Flatten(buckets)) > 0
  THEN FillSlots(buckets, remainingSlots,
                 Max(1, remainingSlots
                          \div Cardinality({b \in DOMAIN buckets : Len(buckets[b]) > 0})))
  ELSE <<>>

\* isDuplicate for one clip c of uniqueSelection (clipper.js:782-791)
isDuplicate(c, clip) ==
  /\ Abs(c.start - clip.start) < 10
  /\ \/ Includes(c.text, Take(clip.text, 50))
     \/ Includes(clip.text, Take(c.text, 50))

\* uniqueSelection (clipper.js:779-796)
RECURSIVE uniqueSelection(_, _)
uniqueSelection(combinedSelection, unique) ==
  IF Len(combinedSelection) = 0 THEN unique
  ELSE uniqueSelection(
         Tail(combinedSelection),
         IF \E i \in DOMAIN unique : isDuplicate(unique[i], Head(combinedSelection))
         THEN unique
         ELSE Append(unique, Head(combinedSelection)))

\* combinedSelection (clipper.js:714-776)
combinedSelection(preferred, max) ==
  Take(preferred, TopCount(max))
  \o selectedFromBuckets(BucketClips(Drop(preferred, TopCount(max))),
                         max - Len(Take(preferred, TopCount(max))))

getDiverseClipSelectionWithDurations(scoredClips, max) ==
  Take(uniqueSelection(combinedSelection(preferredClips(scoredClips, max), max), <<>>),
       max)

\* the longest list
MaxScored == 5

\* a scored clip: start and duration in seconds, the score in 1/ScoreOne
ScoredClip(start, duration, text, complete, score) ==
  [text |-> text, start |-> start, end |-> start + duration, duration |-> duration,
   endsWithCompleteSentence |-> complete, qualityScore |-> score]

\* the clips the lists are made of, the best first.  1, 2 and 3 start together
\* and each text goes on from the one before, as the windows of one first
\* sentence do; the others are apart in time and text.  By bucket: 1, 4 and 7
\* are in 5-10 s, 2 and 5 in 10-15 s, 3 in 15-20 s, 6 in 20-30 s, 8 in 30-60 s.
ScoredCatalogue ==
  << ScoredClip(0, 7, <<"a", ".">>, TRUE, 9000),
     ScoredClip(0, 12, <<"a", ".", " ", "c", ".">>, TRUE, 8500),
     ScoredClip(0, 17, <<"a", ".", " ", "c", ".", " ", "d", ".">>, TRUE, 8000),
     ScoredClip(20, 8, <<"e", ".">>, TRUE, 7000),
     ScoredClip(40, 12, <<"f">>, FALSE, 6000),
     ScoredClip(60, 25, <<"g">>, FALSE, 5000),
     ScoredClip(100, 8, <<"j", ".">>, TRUE, 4000),
     ScoredClip(120, 40, <<"o", ".">>, TRUE, 3000) >>

\* the lists: up to MaxScored clips of the catalogue, in its order
ScoredLists ==
  { [r \in 1..Cardinality(set) |-> ScoredCatalogue[Ascending(set)[r]]] :
    set \in {x \in SUBSET (1..Len(ScoredCatalogue)) :
               Cardinality(x) >= 1 /\ Cardinality(x) <= MaxScored} }

\* the values of maxClips: the 15 of filterClipsForQuality (clipper.js:1212)
\* and a smaller one
MaxClipsValues == {5, 15}

InitDiverse ==
  /\ entry = "getDiverseClipSelectionWithDurations"
  /\ transcript = Null
  /\ pc = "getDiverseClipSelectionWithDurations"
  /\ calls = <<>>
  /\ utterances = <<>>
  /\ potentialClips \in ScoredLists
  /\ clipsForAI = <<>>
  /\ unit = 1
  /\ aiResponse = NoResponse
  /\ clips = <<>>
  /\ generated = NotGenerated
  /\ sortedClips = <<>>
  /\ finalClips = <<>>
  /\ maxClips \in MaxClipsValues
  /\ validatedClips = <<>>
  /\ results = <<>>
  /\ options = NoOptions
  /\ exists = NoFiles
  /\ disk = NoFiles
  /\ provider = NoProvider

\* the call getDiverseClipSelectionWithDurations(potentialClips, maxClips)
GetDiverseClipSelection ==
  /\ pc = "getDiverseClipSelectionWithDurations"
  /\ calls' = Append(calls, "getDiverseClipSelectionWithDurations")
  /\ Return(getDiverseClipSelectionWithDurations(potentialClips, maxClips))
  /\ UNCHANGED << options, exists, disk, provider, maxClips, validatedClips, results,
                  entry, transcript, utterances,
                  potentialClips, clipsForAI, unit, aiResponse, generated,
                  sortedClips, finalClips >>

NextDiverse == GetDiverseClipSelection

SpecDiverse == InitDiverse /\ [][NextDiverse]_vars

\* ------------------------------------------------------------------------
\* generateClips (clipper.js:815-968) on its own, on the lists a caller could
\* hand to it: main hands over what identifyClipsWithAI returned, the
\* function is exported as well.  Times are in seconds.

\* the values of the start, the end and the duration of a clip, and of
\* videoDuration: a number, NaN (a number for typeof), a string, undefined
Num(n) == [type |-> "number", value |-> n]
NaN == [type |-> "number", nan |-> TRUE]
Str(text) == [type |-> "string", text |-> text]
Undefined == [type |-> "undefined"]

\* typeof value
TypeOf(value) == value.type

\* a >= b and a > b for values that are numbers: false when one is NaN
GreaterOrEqual(a, b) ==
  /\ HasField(a, "value") /\ HasField(b, "value")
  /\ a.value >= b.value
Greater(a, b) ==
  /\ HasField(a, "value") /\ HasField(b, "value")
  /\ a.value > b.value

\* a filter that keeps every clip
KeepEveryClip(clip) == TRUE

\* the callback of clips.filter (clipper.js:846-864)
IsValidClip(clip) ==
  /\ TypeOf(clip.start) = "number" /\ TypeOf(clip.end) = "number"
  /\ ~GreaterOrEqual(clip.start, clip.end)

\* validClips (clipper.js:846-864)
validClips(list) ==
  FilterSeq(list, {list[i] : i \in {j \in DOMAIN list : IsValidClip(list[j])}})

\* validatedClips (clipper.js:883-889)
WithinVideo(list, videoDuration) ==
  FilterSeq(list, {list[i] : i \in {j \in DOMAIN list :
                                      ~Greater(list[j].start, videoDuration)}})

\* the longest list
MaxGenerated == 3

\* the clips of the lists: a valid clip, an inverted one, an empty one, one
\* with a string for a start, one without an end, one that starts after the
\* end of the video, a valid one without a duration, one whose start is NaN
GenerateCatalogue ==
  { [start |-> Num(0), end |-> Num(10), duration |-> Num(10)],
    [start |-> Num(20), end |-> Num(10), duration |-> Num(0 - 10)],
    [start |-> Num(10), end |-> Num(10), duration |-> Num(0)],
    [start |-> Str(<<"0">>), end |-> Num(10), duration |-> NaN],
    [start |-> Num(0), end |-> Undefined, duration |-> NaN],
    [start |-> Num(100), end |-> Num(110), duration |-> Num(10)],
    [start |-> Num(30), end |-> Num(40), duration |-> Undefined],
    [start |-> NaN, end |-> Num(10), duration |-> NaN] }

GenerateLists == UNION { [1..n -> GenerateCatalogue] : n \in 1..MaxGenerated }

\* what parseFloat(execSync(ffprobe ...)) comes to (clipper.js:876-878): the
\* duration of the video, NaN when the output is no number
VideoDurations == { Num(60), NaN }

InitGenerate ==
  /\ entry = "generateClips"
  /\ transcript = Null
  /\ pc = "generateClips"
  /\ calls = <<>>
  /\ utterances = <<>>
  /\ potentialClips = <<>>
  /\ clipsForAI = <<>>
  /\ unit = 1
  /\ aiResponse = NoResponse
  /\ clips \in GenerateLists
  /\ generated = NotGenerated
  /\ sortedClips = <<>>
  /\ finalClips = <<>>
  /\ maxClips = 0
  /\ validatedClips = <<>>
  /\ results = <<>>
  /\ options = NoOptions
  /\ exists = NoFiles
  /\ disk = NoFiles
  /\ provider = NoProvider

\* generateClips(clips, ...) up to the loop (clipper.js:815-891): return []
\* when no clip is valid; else ffprobe fails, which is thrown on
\* (clipper.js:964-967), or gives videoDuration
GenerateClips ==
  /\ pc = "generateClips"
  /\ calls' = Append(calls, "generateClips")
  /\ IF Len(validClips(clips)) = 0
     THEN pc' = "returned" /\ UNCHANGED validatedClips
     ELSE \/ pc' = "raised" /\ UNCHANGED validatedClips
          \/ \E videoDuration \in VideoDurations :
               /\ validatedClips' = WithinVideo(validClips(clips), videoDuration)
               /\ pc' = "processClip"
  /\ UNCHANGED << options, exists, disk, provider, maxClips, results, entry, transcript, utterances, potentialClips,
                  clipsForAI, unit, aiResponse, clips, generated, sortedClips,
                  finalClips >>

\* one turn of the loop (clipper.js:916-917): processClip logs the clip and
\* calls generateClip (clipper.js:894-906)
ProcessClip ==
  /\ pc = "processClip"
  /\ Len(results) < Len(validatedClips)
  /\ calls' = Append(calls, "generateClip")
  /\ pc' = "generateClip"
  /\ UNCHANGED << options, exists, disk, provider, maxClips, validatedClips, results,
                  entry, transcript, utterances, potentialClips, clipsForAI, unit,
                  aiResponse, clips, generated, sortedClips, finalClips >>

\* await generateClip(...) settles: it gives a path or throws, which
\* processClip catches (clipper.js:905-911), and the result is pushed
\* (clipper.js:918)
GenerateClipSettles ==
  /\ pc = "generateClip"
  /\ \E success \in BOOLEAN :
       results' = Append(results, [success |-> success,
                                   clip |-> validatedClips[Len(results) + 1]])
  /\ pc' = "processClip"
  /\ UNCHANGED << options, exists, disk, provider, maxClips, validatedClips, entry,
                  transcript, calls, utterances, potentialClips, clipsForAI, unit,
                  aiResponse, clips, generated, sortedClips, finalClips >>

\* after the loop (clipper.js:921-967): the summary of a generated clip calls
\* clip.duration.toFixed (clipper.js:943), a TypeError when the duration is
\* undefined, which is thrown on; else the paths of the generated clips are
\* returned
ReturnGenerated ==
  /\ pc = "processClip"
  /\ Len(results) = Len(validatedClips)
  /\ pc' = IF \E i \in DOMAIN results :
                results[i].success /\ TypeOf(results[i].clip.duration) = "undefined"
           THEN "raised"
           ELSE "returned"
  /\ UNCHANGED << options, exists, disk, provider, maxClips, validatedClips, results,
                  entry, transcript, calls,
                  utterances, potentialClips, clipsForAI, unit, aiResponse, clips,
                  generated, sortedClips, finalClips >>

NextGenerate ==
  \/ GenerateClips
  \/ ProcessClip
  \/ GenerateClipSettles
  \/ ReturnGenerated

SpecGenerate == InitGenerate /\ [][NextGenerate]_vars

\* ------------------------------------------------------------------------
\* main, steps 1 to 3 (part_000:102-139): from the options and the files on
\* disk to the transcript; steps 4 and 5 are the pipeline above

\* the files created by a step
WithFile(files, name) == [files EXCEPT ![name] = TRUE]

\* the transcript transcribeAudio returns or JSON.parse reads
SomeTranscript == Transcripts[1]

InitMain ==
  /\ entry = "main"
  /\ transcript = Null
  /\ pc = "downloadVideo"
  /\ calls = <<>>
  /\ utterances = <<>>
  /\ potentialClips = <<>>
  /\ clipsForAI = <<>>
  /\ unit = 1
  /\ aiResponse = NoResponse
  /\ clips = <<>>
  /\ generated = NotGenerated
  /\ sortedClips = <<>>
  /\ finalClips = <<>>
  /\ maxClips = 0
  /\ validatedClips = <<>>
  /\ results = <<>>
  /\ options \in [skipDownload : BOOLEAN, skipTranscription : BOOLEAN]
  /\ disk \in [video : BOOLEAN, audio : BOOLEAN, transcript : BOOLEAN]
  /\ exists = disk
  /\ provider = NoProvider

\* step 1 (part_000:109-115): downloadVideo leaves the file or throws
\* (download.js:42-53)
MainDownloadVideo ==
  /\ pc = "downloadVideo"
  /\ IF ~options.skipDownload /\ ~exists.video
     THEN /\ calls' = Append(calls, "downloadVideo")
          /\ \/ pc' = "extractAudio" /\ disk' = WithFile(disk, "video")
             \/ pc' = "raised" /\ UNCHANGED disk
     ELSE pc' = "extractAudio" /\ UNCHANGED << calls, disk >>
  /\ UNCHANGED << options, exists, provider, maxClips, validatedClips, results, entry,
                  transcript, utterances, potentialClips, clipsForAI, unit, aiResponse,
                  clips, generated, sortedClips, finalClips >>

\* step 2 (part_000:117-123): extractAudio leaves the file or throws
\* (part_002:36-72)
MainExtractAudio ==
  /\ pc = "extractAudio"
  /\ IF ~exists.audio /\ disk.video
     THEN /\ calls' = Append(calls, "extractAudio")
          /\ \/ pc' = "transcribeAudio" /\ disk' = WithFile(disk, "audio")
             \/ pc' = "raised" /\ UNCHANGED disk
     ELSE pc' = "transcribeAudio" /\ UNCHANGED << calls, disk >>
  /\ UNCHANGED << options, exists, provider, maxClips, validatedClips, results, entry,
                  transcript, utterances, potentialClips, clipsForAI, unit, aiResponse,
                  clips, generated, sortedClips, finalClips >>

\* step 3 (part_000:125-139): transcribeAudio returns the transcript it has
\* written or throws (part_003:171-199); an existing file is parsed, which
\* may throw; else the transcript stays null
MainTranscribeAudio ==
  /\ pc = "transcribeAudio"
  /\ IF ~exists.transcript /\ disk.audio
     THEN /\ calls' = Append(calls, "transcribeAudio")
          /\ \/ /\ pc' = "identifyClips"
                /\ transcript' = SomeTranscript
                /\ disk' = WithFile(disk, "transcript")
             \/ pc' = "raised" /\ UNCHANGED << transcript, disk >>
     ELSE /\ UNCHANGED << calls, disk >>
          /\ IF exists.transcript
             THEN \/ pc' = "identifyClips" /\ transcript' = SomeTranscript
                  \/ pc' = "raised" /\ UNCHANGED transcript
             ELSE pc' = "identifyClips" /\ UNCHANGED transcript
  /\ UNCHANGED << options, exists, provider, maxClips, validatedClips, results, entry,
                  utterances, potentialClips, clipsForAI, unit, aiResponse, clips,
                  generated, sortedClips, finalClips >>

NextMain ==
  \/ MainDownloadVideo
  \/ MainExtractAudio
  \/ MainTranscribeAudio

SpecMain == InitMain /\ [][NextMain]_vars

\* ------------------------------------------------------------------------
\* The pool of the text path (clipper.js:218-281) for more candidates than
\* CLIPS_FOR_AI, which the texts of the pipeline above never give: the
\* selection, the shuffle and the cut on lists of validated clips

\* the longest list of candidates
MaxCandidates == 61

\* the k-th of n validated clips, times in ms: the later the better; the
\* CLIPS_FOR_AI / 2 best last 7 s, of the others the first `short` last 5 s
\* and the rest 15 s
Candidate(k, n, short) ==
  [text |-> <<"a", ".">>, start |-> k * 1000,
   end |-> k * 1000 + (IF k > n - CLIPS_FOR_AI \div 2 THEN 7000
                       ELSE IF k <= short THEN 5000 ELSE 15000),
   duration |-> IF k > n - CLIPS_FOR_AI \div 2 THEN 7000
                ELSE IF k <= short THEN 5000 ELSE 15000,
   qualityScore |-> k * 10]

CandidateLists ==
  { [k \in 1..n |-> Candidate(k, n, short)] :
      n \in (CLIPS_FOR_AI + 1)..MaxCandidates, short \in 0..(MaxCandidates - CLIPS_FOR_AI \div 2) }

\* an outcome of the shuffle (clipper.js:275-278) that leaves the clips of
\* `tail`, a sequence of ascending indices, at the end of the list, in the
\* order of the list, after the other clips in their order.  The shuffle
\* gives every order of the list; these are the orders that differ in the
\* clips that the cut to CLIPS_FOR_AI (clipper.js:281) drops.
TailOutcome(n, tail) ==
  [i \in 1..n |->
     IF i <= n - Len(tail)
     THEN CHOOSE k \in 1..n :
            /\ \A t \in DOMAIN tail : tail[t] # k
            /\ Cardinality({m \in 1..(k - 1) : \A t \in DOMAIN tail : tail[t] # m}) = i - 1
     ELSE tail[i - (n - Len(tail))]]

\* the tails of a list of n clips of which the cut drops those after `keep`
Tails(n, keep) ==
  {tail \in [1..Max(0, n - keep) -> 1..n] :
     \A t \in DOMAIN tail : t > 1 => tail[t - 1] < tail[t]}

InitPool ==
  /\ entry = "identifyClipsFromFullText"
  /\ transcript = Null
  /\ pc = "sortedClips"
  /\ calls = <<>>
  /\ utterances = <<>>
  /\ potentialClips \in CandidateLists
  /\ clipsForAI = <<>>
  /\ unit = 1
  /\ aiResponse = NoResponse
  /\ clips = <<>>
  /\ generated = NotGenerated
  /\ sortedClips = <<>>
  /\ finalClips = <<>>
  /\ maxClips = 0
  /\ validatedClips = <<>>
  /\ results = <<>>
  /\ options = NoOptions
  /\ exists = NoFiles
  /\ disk = NoFiles
  /\ provider = NoProvider

\* clipsForAI before the shuffle (clipper.js:218-272)
SelectClipsForAI ==
  /\ pc = "sortedClips"
  /\ clipsForAI' = TextClipsForAI(potentialClips, unit)
  /\ pc' = "shuffle"
  /\ UNCHANGED << options, exists, disk, provider, maxClips, validatedClips, results,
                  entry, transcript, calls, utterances, potentialClips, unit,
                  aiResponse, clips, generated, sortedClips, finalClips >>

\* the shuffle and the cut (clipper.js:274-281)
ShuffleAndCut ==
  /\ pc = "shuffle"
  /\ \E tail \in Tails(Len(clipsForAI), CLIPS_FOR_AI) :
       clipsForAI' = Take(Shuffled(clipsForAI, TailOutcome(Len(clipsForAI), tail)),
                          CLIPS_FOR_AI)
  /\ pc' = "createPromptForContentType"
  /\ UNCHANGED << options, exists, disk, provider, maxClips, validatedClips, results,
                  entry, transcript, calls, utterances, potentialClips, unit,
                  aiResponse, clips, generated, sortedClips, finalClips >>

NextPool ==
  \/ SelectClipsForAI
  \/ ShuffleAndCut

SpecPool == InitPool /\ [][NextPool]_vars

\* ------------------------------------------------------------------------
\* createPotentialClips (clipper.js:55-147) on its own, on lists of more
\* sentences than the texts of the pipeline above hold

\* the longest list of sentences
MaxLongText == 50

\* a sentence of `words` words
PlainSentence(words) ==
  [c \in 1..(2 * words) |->
     IF c = 2 * words THEN "." ELSE IF c % 2 = 1 THEN "a" ELSE " "]

\* the arguments: 30 to MaxLongText sentences of 1 to 4 words each, of
\* 0.4 s a word (clipper.js:188), in ms
LongTexts ==
  { [sentences |-> [i \in 1..n |-> PlainSentence(words)],
     timePerWord |-> 400, contentType |-> type] :
      n \in 30..MaxLongText, words \in 1..4, type \in {"music", "general"} }

InitCandidates ==
  /\ entry = "createPotentialClips"
  /\ transcript \in LongTexts
  /\ pc = "createPotentialClips"
  /\ calls = <<>>
  /\ utterances = <<>>
  /\ potentialClips = <<>>
  /\ clipsForAI = <<>>
  /\ unit = 1
  /\ aiResponse = NoResponse
  /\ clips = <<>>
  /\ generated = NotGenerated
  /\ sortedClips = <<>>
  /\ finalClips = <<>>
  /\ maxClips = 0
  /\ validatedClips = <<>>
  /\ results = <<>>
  /\ options = NoOptions
  /\ exists = NoFiles
  /\ disk = NoFiles
  /\ provider = NoProvider

\* the call createPotentialClips(sentences, timePerWord, contentType)
CreatePotentialClips ==
  /\ pc = "createPotentialClips"
  /\ calls' = Append(calls, "createPotentialClips")
  /\ potentialClips' = createPotentialClips(transcript.sentences, transcript.timePerWord,
                                            unit, transcript.contentType)
  /\ pc' = "returned"
  /\ UNCHANGED << options, exists, disk, provider, maxClips, validatedClips, results,
                  entry, transcript, utterances, clipsForAI, unit, aiResponse, clips,
                  generated, sortedClips, finalClips >>

NextCandidates == CreatePotentialClips

SpecCandidates == InitCandidates /\ [][NextCandidates]_vars

\* ------------------------------------------------------------------------
\* pollForTranscriptionCompletion (part_003:122-148) on its own.  The service
\* is [pending, final]: the statuses it reports while the transcription is in
\* progress, one for each check, and what comes after them: "completed",
\* "error", "failed" for a check that fails (part_003:108-114), or "never"
\* for a service that reports "processing" from then on.

\* the most checks answered with a status in progress before the final answer
MaxPolls == 3

Providers ==
  [pending : UNION {[1..n -> {"queued", "processing"}] : n \in 0..MaxPolls},
   final : {"completed", "error", "failed", "never"}]

\* what the next check gives
NextAnswer(service) ==
  IF Len(service.pending) > 0 THEN Head(service.pending)
  ELSE IF service.final = "never" THEN "processing"
  ELSE service.final

\* the loop treats every error as a status in progress
WaitUnlessCompleted(answer) ==
  IF answer = "failed" THEN "raised"
  ELSE IF answer = "completed" THEN "returned"
  ELSE "setTimeout"

\* where the loop goes after a check (part_003:131-144): a failed check
\* throws out of the loop, "completed" leaves it, "error" throws, every other
\* status waits
AfterCheck(answer) ==
  IF answer = "failed" THEN "raised"
  ELSE IF answer = "completed" THEN "returned"
  ELSE IF answer = "error" THEN "raised"
  ELSE "setTimeout"

InitPoll ==
  /\ entry = "pollForTranscriptionCompletion"
  /\ transcript = Null
  /\ pc = "checkTranscriptionStatus"
  /\ calls = <<>>
  /\ utterances = <<>>
  /\ potentialClips = <<>>
  /\ clipsForAI = <<>>
  /\ unit = 1
  /\ aiResponse = NoResponse
  /\ clips = <<>>
  /\ generated = NotGenerated
  /\ sortedClips = <<>>
  /\ finalClips = <<>>
  /\ maxClips = 0
  /\ validatedClips = <<>>
  /\ results = <<>>
  /\ options = NoOptions
  /\ exists = NoFiles
  /\ disk = NoFiles
  /\ provider \in Providers

\* transcription = await checkTranscriptionStatus(transcriptionId) and the
\* test of its status (part_003:131-142)
CheckTranscriptionStatus ==
  /\ pc = "checkTranscriptionStatus"
  /\ pc' = AfterCheck(NextAnswer(provider))
  /\ transcript' = IF NextAnswer(provider) = "failed" THEN transcript
                   ELSE [status |-> NextAnswer(provider)]
  /\ provider' = [provider EXCEPT !.pending = Drop(provider.pending, 1)]
  /\ UNCHANGED << options, exists, disk, maxClips, validatedClips, results, entry,
                  calls, utterances, potentialClips, clipsForAI, unit, aiResponse,
                  clips, generated, sortedClips, finalClips >>

\* await new Promise(resolve => setTimeout(resolve, pollingInterval))
\* (part_003:143)
WaitPollingInterval ==
  /\ pc = "setTimeout"
  /\ pc' = "checkTranscriptionStatus"
  /\ UNCHANGED << options, exists, disk, provider, maxClips, validatedClips, results,
                  entry, transcript, calls, utterances, potentialClips, clipsForAI,
                  unit, aiResponse, clips, generated, sortedClips, finalClips >>

NextPoll ==
  \/ CheckTranscriptionStatus
  \/ WaitPollingInterval

SpecPoll == InitPoll /\ [][NextPoll]_vars

\* the event loop runs the continuation of every await that has settled and
\* every timer that has expired
SpecPollFair == SpecPoll /\ WF_vars(NextPoll)

\* ------------------------------------------------------------------------
\* Properties of the pipeline (Spec)

\* the run of identifyClipsWithAI is over
Finished == pc \in {"returned", "done"} /\ CallCount("identifyClipsWithAI") = 1

\* C1: on the text path and on the utterance path, whenever the pool is not
\* empty the LLM is called, and fallbackClipSelection is entered only after a
\* call of the LLM (one that raised an error, or whose reply parsed to no
\* valid selection).
C1_FallbackOnlyAfterLLMCall ==
  /\ (Finished /\ Len(clipsForAI) > 0) => CallCount("createChatCompletion") > 0
  /\ (pc = "fallbackClipSelection" \/ CallCount("fallbackClipSelection") > 0) =>
       /\ CallCount("createChatCompletion") > 0
       /\ \/ aiResponse.kind \in {"throw", "malformed"}
          \/ /\ aiResponse.kind = "reply"
             /\ ParseReply(aiResponse.text, clipsForAI, onTextPath).how = "fallback"

\* C1: the state the claim excludes: the utterance path has returned the
\* choice of fallbackClipSelection for a pool that is not empty, and the LLM
\* was never called
C1_UtteranceFallbackWithoutLLMCall ==
  /\ pc = "returned"
  /\ CallCount("identifyClipsFromUtterances") = 1
  /\ Len(clipsForAI) > 0
  /\ CallCount("fallbackClipSelection") = 1
  /\ CallCount("createChatCompletion") = 0

\* C2: when the call of the LLM throws, the LLM has been called exactly once
\* (no retry), the error does not reach the caller, and the list returned is
\* fallbackClipSelection of the pool the prompt was built from; the LLM is
\* never called more than once in a run.
C2_ThrowFallsBackWithoutRetry ==
  /\ CallCount("createChatCompletion") <= 1
  /\ aiResponse.kind = "throw" =>
       /\ pc # "raised"
       /\ pc \in {"fallbackClipSelection", "returned", "done"}
       /\ pc \in {"returned", "done"} =>
            /\ clips = fallbackClipSelection(clipsForAI, unit)
            /\ calls[Len(calls) - (IF pc = "done" /\ generated.called THEN 1 ELSE 0)]
                 = "fallbackClipSelection"

\* C2: the call of the LLM threw on the text path and the run returned the
\* clips of the fallback
C2_ThrowThenFallbackReturned ==
  /\ aiResponse.kind = "throw"
  /\ pc = "returned"
  /\ onTextPath
  /\ Len(clips) > 0

\* more than half of the shorter of two clips lies inside the other
OverlapsOverHalf(a, b) ==
  /\ Min(a.end, b.end) > Max(a.start, b.start)
  /\ 2 * (Min(a.end, b.end) - Max(a.start, b.start)) > Min(a.end - a.start, b.end - b.start)

\* C3: the list handed to generateClips has been through
\* analyzeClipsForQualityAndOverlap, and no two of its clips overlap by more
\* than half of the shorter one.
C3_ResolvedBeforeGenerateClips ==
  generated.called =>
    /\ CallCount("analyzeClipsForQualityAndOverlap") > 0
    /\ \A i, j \in 1..Len(generated.clips) :
         i # j => ~OverlapsOverHalf(generated.clips[i], generated.clips[j])

\* C3: the state the claim excludes: generateClips was handed two clips the
\* LLM selected that overlap by more than half of the shorter one
C3_OverlappingClipsGenerated ==
  /\ generated.called
  /\ CallCount("analyzeClipsForQualityAndOverlap") = 0
  /\ \E i, j \in 1..Len(generated.clips) :
       i # j /\ OverlapsOverHalf(generated.clips[i], generated.clips[j])

\* C6: identifyClipsWithAI hands the transcript to exactly one generator, the
\* first of text, utterances, words, chapters that is present and not empty,
\* and to the basic splitter when none is, whatever else the transcript holds.
C6_DispatchPriority ==
  (Len(calls) >= 2 /\ calls[1] = "identifyClipsWithAI") =>
    LET present(f) == ~IsNull(transcript) /\ f \in DOMAIN transcript /\ transcript[f] # <<>>
    IN /\ present("text") => calls[2] = "identifyClipsFromFullText"
       /\ (~present("text") /\ present("utterances")) =>
            calls[2] = "identifyClipsFromUtterances"
       /\ (~present("text") /\ ~present("utterances") /\ present("words")) =>
            calls[2] = "identifyClipsFromWords"
       /\ (~present("text") /\ ~present("utterances") /\ ~present("words")
             /\ present("chapters")) =>
            calls[2] = "identifyClipsFromChapters"
       /\ (~present("text") /\ ~present("utterances") /\ ~present("words")
             /\ ~present("chapters")) =>
            calls[2] = "identifyClips"
       /\ CallCount("identifyClipsWithAI") = 1

\* C6: a transcript that holds all four representations went to the text
\* generator
C6_AllFieldsGoToText ==
  /\ ~IsNull(transcript)
  /\ {"text", "utterances", "words", "chapters"} \subseteq DOMAIN transcript
  /\ \A f \in {"text", "utterances", "words", "chapters"} : transcript[f] # <<>>
  /\ Len(calls) >= 2
  /\ calls[2] = "identifyClipsFromFullText"

\* C7: an empty list is returned only after the basic splitter identifyClips
\* has run.
C7_BasicSplitterBeforeEmptyList ==
  (Finished /\ Len(clips) = 0) => CallCount("identifyClips") = 1

\* C7: the state the claim excludes: the text path found no candidate and
\* returned the empty list for a transcript with utterances, and identifyClips
\* never ran
C7_TextPathReturnsEmptyDirectly ==
  /\ Finished
  /\ onTextPath
  /\ Len(potentialClips) = 0
  /\ Len(clips) = 0
  /\ "utterances" \in DOMAIN transcript
  /\ Len(transcript.utterances) > 0
  /\ CallCount("identifyClips") = 0

\* C8: for a transcript value without text, words, utterances and chapters
\* (the empty object and null among them) identifyClipsWithAI does not raise,
\* does not call the LLM and returns the empty list.
C8_NoRepresentationReturnsEmpty ==
  (IsNull(transcript)
     \/ \A f \in {"text", "words", "utterances", "chapters"} : f \notin DOMAIN transcript) =>
    /\ pc # "raised"
    /\ CallCount("createChatCompletion") = 0
    /\ Finished => clips = <<>>

\* C8: the state the claim excludes: identifyClipsWithAI(null) has raised
C8_NullTranscriptRaises ==
  /\ IsNull(transcript)
  /\ pc = "raised"
  /\ CallCount("identifyClipsWithAI") = 1

\* C9: every candidate of every generator has duration = end - start and a
\* duration of at least 5 s.
C9_CandidateDurations ==
  \A i \in 1..Len(potentialClips) :
    /\ potentialClips[i].duration = potentialClips[i].end - potentialClips[i].start
    /\ potentialClips[i].duration >= 5000 * unit

\* C9: the state the claim excludes: a candidate of the text path that the
\* validation against audio_duration left shorter than 5 s
C9_ShortCandidateAfterValidation ==
  /\ onTextPath
  /\ "audio_duration" \in DOMAIN transcript
  /\ \E i \in 1..Len(potentialClips) : potentialClips[i].duration < 5000 * unit

\* the last character of a text that is not whitespace, "" when there is none
LastInked(text) ==
  IF \A k \in 1..Len(text) : text[k] \in Whitespace THEN ""
  ELSE text[CHOOSE k \in 1..Len(text) :
              /\ text[k] \notin Whitespace
              /\ \A l \in (k + 1)..Len(text) : text[l] \in Whitespace]

\* C10: the text of every candidate whose endsWithCompleteSentence is true
\* has '.', '!' or '?' as its last character that is not whitespace.
C10_CompleteFlagMeansTerminator ==
  \A i \in 1..Len(potentialClips) :
    ("endsWithCompleteSentence" \in DOMAIN potentialClips[i]
       /\ potentialClips[i].endsWithCompleteSentence) =>
      LastInked(potentialClips[i].text) \in Terminators

\* C10: a candidate with a true flag, made from a text whose last sentence a
\* closing quote follows
C10_FlaggedCandidateOfQuotedText ==
  /\ onTextPath
  /\ transcript.text[Len(transcript.text)] \in Quotes
  /\ \E i \in 1..Len(potentialClips) :
       /\ potentialClips[i].endsWithCompleteSentence
       /\ potentialClips[i].sentenceCount = 2

\* C11: the text of every candidate of the utterance generator (each is
\* marked completeEnding) ends at a sentence terminator.
C11_UtteranceCandidatesEndAtTerminator ==
  \A i \in 1..Len(potentialClips) :
    ("completeEnding" \in DOMAIN potentialClips[i] /\ potentialClips[i].completeEnding) =>
      LastInked(potentialClips[i].text) \in Terminators

\* C11: the state the claim excludes: a window of one utterance whose text
\* goes on after its last sentence was emitted untrimmed, marked completeEnding
C11_OneUtteranceWindowEndsMidSentence ==
  /\ CallCount("identifyClipsFromUtterances") = 1
  /\ \E i \in 1..Len(potentialClips) :
       /\ potentialClips[i].completeEnding
       /\ Len(potentialClips[i].utterances) = 1
       /\ LastInked(potentialClips[i].text) \notin Terminators
       /\ LastBoundaryIndex(potentialClips[i].text) > 0

\* the transcript holds a text of three sentences and fifteen words and nothing
\* else
ThreeShortSentences ==
  /\ ~IsNull(transcript)
  /\ DOMAIN transcript = {"text"}
  /\ Len(Sentences(transcript.text)) = 3
  /\ WordCountOf(transcript.text) = 15

\* C12: for a text-only transcript of three short sentences (15 words) without
\* audio_duration the text generator yields at least one candidate, every
\* candidate lies inside the relaxed duration band, and the candidate of all
\* three sentences is among them with endsWithCompleteSentence = true.
C12_ShortSentencesYieldCompleteCandidate ==
  (ThreeShortSentences /\ CallCount("identifyClipsFromFullText") = 1) =>
    /\ TimePerWord(transcript) = 400
    /\ \A i \in 1..Len(potentialClips) :
         /\ potentialClips[i].duration >= RelaxedMinMs
         /\ potentialClips[i].duration <= RelaxedMaxMs
    /\ \E i \in 1..Len(potentialClips) :
         /\ potentialClips[i].sentenceCount = 3
         /\ potentialClips[i].endsWithCompleteSentence

\* C12: the candidate of the three sentences: 15 words at 0.4 s and one second
\* of padding after them
C12_SevenSecondCandidate ==
  /\ ThreeShortSentences
  /\ CallCount("identifyClipsFromFullText") = 1
  /\ \E i \in 1..Len(potentialClips) :
       /\ potentialClips[i].start = 0
       /\ potentialClips[i].end = 7000
       /\ potentialClips[i].wordCount = 15
       /\ potentialClips[i].endsWithCompleteSentence

\* the numbers written in a text: the values of its runs of digits
NumbersIn(text) ==
  { ParseInt(SubSeq(text, p, DigitsEnd(text, p))) :
      p \in {q \in 1..Len(text) : IsDigit(text[q]) /\ ~IsDigit(At(text, q - 1))} }

\* the run has returned the clips parsed from the reply
ReturnedParsedClips ==
  /\ Finished
  /\ aiResponse.kind = "reply"
  /\ CallCount("fallbackClipSelection") = 0

\* what a selection adds to the clip of the pool
SelectionFields == {"reason", "targetAudience", "durationEffectiveness", "aiSelected"}

HeaderPrefix == <<"S", " ", "C", " ", "#", ":", " ">>
HeaderStarts(text) ==
  {p \in 1..(Len(text) - 7) : SubSeq(text, p, p + 6) = HeaderPrefix /\ IsDigit(text[p + 7])}
HeaderDigits(text, p) == SubSeq(text, p + 7, DigitsEnd(text, p + 7))

\* the block of the header at p: what follows 'VIRAL POTENTIAL:' on the line
\* after the header, up to the next line that starts with TARGET, SELECTED or
\* DURATION or to the end of the reply, trimmed
BlockStop(text, from) ==
  LET stops == {k \in from..Len(text) :
                  text[k] = "\n" /\ At(text, k + 1) \in {"T", "S", "D"}}
  IN IF stops = {} THEN Len(text) + 1 ELSE CHOOSE k \in stops : \A l \in stops : k <= l
HeaderBlock(text, p) ==
  Trim(SubSeq(text, DigitsEnd(text, p + 7) + 6,
              BlockStop(text, DigitsEnd(text, p + 7) + 6) - 1))

\* a reply made of such headers, each followed by a block that is not blank,
\* with distinct clip numbers of the pool
WellFormedReply(text, poolSize) ==
  /\ HeaderStarts(text) # {}
  /\ \A q \in 1..Len(text) : text[q] = "S" => q \in HeaderStarts(text)
  /\ \A q \in 1..Len(text) :
       text[q] = "V" => \E p \in HeaderStarts(text) : q = DigitsEnd(text, p + 7) + 2
  /\ \A p \in HeaderStarts(text) :
       /\ SubSeq(text, DigitsEnd(text, p + 7) + 1, DigitsEnd(text, p + 7) + 5)
            = <<"\n", "V", " ", "P", ":">>
       /\ Len(HeaderBlock(text, p)) > 0
       /\ ParseInt(HeaderDigits(text, p)) \in 1..poolSize
       /\ \A q \in HeaderStarts(text) :
            q # p => ParseInt(HeaderDigits(text, q)) # ParseInt(HeaderDigits(text, p))

MentionsParsed ==
  /\ Finished
  /\ aiResponse.kind = "reply"
  /\ aiResponse.text = MentionsInSentence
  /\ Len(clipsForAI) >= 5

\* the selection is the copies of the second and the fifth clip of the pool
SecondAndFifthSelected ==
  /\ Len(clips) = 2
  /\ \A f \in DOMAIN clipsForAI[2] \ SelectionFields : clips[1][f] = clipsForAI[2][f]
  /\ \A f \in DOMAIN clipsForAI[5] \ SelectionFields : clips[2][f] = clipsForAI[5][f]

\* C15: for the reply that mentions 'CLIP 2' and 'CLIP 5' inside a sentence,
\* followed by a 'VIRAL POTENTIAL:' line, and a pool of at least five clips,
\* the selection is made by the scan for mentions and is the pool's entries
\* at the indices 1 and 4.
C15_MentionScanSelects ==
  MentionsParsed =>
    /\ CallCount("fallbackClipSelection") = 0
    /\ ParseReply(aiResponse.text, clipsForAI, onTextPath).how = "mentioned"
    /\ \A k \in 1..Len(clips) : clips[k].reason.tag = "Mentioned by AI as Clip"
    /\ SecondAndFifthSelected

\* C15, as the code has it: the selection is made by the second format, the
\* plain 'CLIP n' pattern, which matches anywhere in the reply; it is the
\* pool's entries at the indices 1 and 4, each with the text of the 'VIRAL
\* POTENTIAL:' line as its reason.
C15_PlainClipPatternSelects ==
  MentionsParsed =>
    /\ CallCount("fallbackClipSelection") = 0
    /\ SelectedClipMatches(aiResponse.text).strategy = 2
    /\ ParseReply(aiResponse.text, clipsForAI, onTextPath).how = "selected"
    /\ \A k \in 1..Len(clips) : clips[k].reason = ReasonFromReply(<<"x">>)
    /\ SecondAndFifthSelected

\* C15: the reply was parsed for a pool of five clips and two were selected
C15_MentionsParsedForPoolOfFive ==
  /\ MentionsParsed
  /\ Len(clipsForAI) = 5
  /\ Len(clips) = 2
  /\ clips[2].aiSelected

\* the reply has been parsed
ReplyParsed ==
  /\ aiResponse.kind = "reply"
  /\ pc \in {"fallbackClipSelection", "returned", "done"}

\* C16: the strategies are tried in order and the cascade stops at the first
\* that yields a match: strategy k (2, 3, 4) is consulted if and only if each
\* of the strategies before it yielded no match.
C16_CascadeStopsAtFirstMatch ==
  ReplyParsed =>
    \A k \in 2..4 :
      k \in StrategiesConsulted(aiResponse.text, clipsForAI, onTextPath)
        <=> \A j \in 1..(k - 1) : Len(StrategyMatches(aiResponse.text, j)) = 0

\* C16: the state the claim excludes: the second format matched a clip number
\* outside the pool, and the clip returned is one the scan for mentions found
C16_MentionScanAfterPlainMatch ==
  /\ ReturnedParsedClips
  /\ Len(StrategyMatches(aiResponse.text, 2)) > 0
  /\ 4 \in StrategiesConsulted(aiResponse.text, clipsForAI, onTextPath)
  /\ Len(clips) = 1
  /\ clips[1].reason.tag = "Mentioned by AI as Clip"

\* C22: every clip identifyClipsWithAI returns carries a reason, a
\* targetAudience and a boolean aiSelected, whichever path produced it, and
\* aiSelected is true only for a clip whose number is written in the reply of
\* the LLM
C22_SelectionsCarryReasonAudienceFlag ==
  Finished =>
    \A k \in 1..Len(clips) :
      /\ {"reason", "targetAudience", "aiSelected"} \subseteq DOMAIN clips[k]
      /\ clips[k].aiSelected \in BOOLEAN
      /\ clips[k].aiSelected =>
           /\ aiResponse.kind = "reply"
           /\ \E n \in NumbersIn(aiResponse.text) \cap (1..Len(clipsForAI)) :
                /\ clips[k].text = clipsForAI[n].text
                /\ clips[k].start = clipsForAI[n].start

\* C22: fallbackClipSelection has given the result of the run, and its first
\* clip has a reason and neither a targetAudience nor an aiSelected
C22_FallbackClipWithoutAudienceAndFlag ==
  /\ Finished
  /\ CallCount("fallbackClipSelection") = 1
  /\ Len(clips) > 0
  /\ HasField(clips[1], "reason")
  /\ ~HasField(clips[1], "targetAudience")
  /\ ~HasField(clips[1], "aiSelected")

\* identifyClipsFromUtterances has made its candidates, and no later function
\* has replaced them
UtteranceCandidatesMade ==
  /\ calls # <<>>
  /\ calls[Len(calls)] = "identifyClipsFromUtterances"
  /\ pc # "identifyClipsFromUtterances"

\* `listed` is the utterance `whole` or what a trim to a sentence boundary
\* leaves of it
WholeOrTrimmed(listed, whole) ==
  \/ listed = whole
  \/ /\ listed.start = whole.start
     /\ listed.end <= whole.end
     /\ Len(listed.text) <= Len(Trim(whole.text))
     /\ listed.text = Trim(SubSeq(Trim(whole.text), 1, Len(listed.text)))

\* the utterances listed by a candidate are the utterances i..j, the last one
\* whole or trimmed
ContiguousRun(listed, i) ==
  /\ i + Len(listed) - 1 <= Len(utterances)
  /\ \A k \in 1..(Len(listed) - 1) : listed[k] = utterances[i + k - 1]
  /\ WholeOrTrimmed(listed[Len(listed)], utterances[i + Len(listed) - 1])

\* C27: every candidate of identifyClipsFromUtterances that lists more than
\* one utterance lists exactly the utterances i..j of the transcript, the
\* last one possibly trimmed and none missing or trimmed in the middle, starts
\* with utterance i and ends where its last listed utterance ends
C27_CandidatesCoverContiguousRuns ==
  UtteranceCandidatesMade =>
    \A c \in DOMAIN potentialClips :
      Len(potentialClips[c].utterances) > 1 =>
        /\ \E i \in DOMAIN utterances :
             /\ potentialClips[c].start = utterances[i].start
             /\ ContiguousRun(potentialClips[c].utterances, i)
        /\ potentialClips[c].end
             = potentialClips[c].utterances[Len(potentialClips[c].utterances)].end

\* witness for C27: a candidate that ends with an earlier utterance lists the
\* utterances pushed after it was made, so its end is before the end of its
\* last listed utterance
C27_CandidateListsLaterUtterances ==
  /\ UtteranceCandidatesMade
  /\ \E c \in DOMAIN potentialClips :
       /\ Len(potentialClips[c].utterances) > 1
       /\ \E i \in DOMAIN utterances :
            /\ potentialClips[c].start = utterances[i].start
            /\ ContiguousRun(potentialClips[c].utterances, i)
       /\ potentialClips[c].end
            < potentialClips[c].utterances[Len(potentialClips[c].utterances)].end
       /\ \E k \in 1..(Len(potentialClips[c].utterances) - 1) :
            potentialClips[c].end = potentialClips[c].utterances[k].end

\* identifyClipsFromWords has grouped the words of the transcript
WordsGrouped ==
  /\ calls # <<>>
  /\ calls[Len(calls)] = "identifyClipsFromWords"
  /\ pc = "identifyClipsFromUtterances"

\* the words of the utterances, one utterance after the other
GroupedWords == Flatten([k \in DOMAIN utterances |-> utterances[k].words])

\* C28: the utterances of identifyClipsFromWords hold the words of the
\* transcript, each once and in their order; the words of an utterance have
\* the speaker of the utterance; an utterance starts with its first word and
\* ends with its last word
C28_WordsPartitionedIntoUtterances ==
  WordsGrouped =>
    /\ GroupedWords = transcript.words
    /\ \A k \in DOMAIN utterances :
         /\ utterances[k].words # <<>>
         /\ \A w \in DOMAIN utterances[k].words :
              utterances[k].words[w].speaker = utterances[k].speaker
         /\ utterances[k].start = utterances[k].words[1].start
         /\ utterances[k].end = utterances[k].words[Len(utterances[k].words)].end

\* witness for C28: the words are grouped without loss and by speaker, but
\* the first utterance starts at 0, before its first word
C28_FirstUtteranceStartsAtZero ==
  /\ WordsGrouped
  /\ GroupedWords = transcript.words
  /\ Len(utterances) > 1
  /\ \A k \in DOMAIN utterances :
       /\ \A w \in DOMAIN utterances[k].words :
            utterances[k].words[w].speaker = utterances[k].speaker
       /\ utterances[k].end = utterances[k].words[Len(utterances[k].words)].end
       /\ k > 1 => utterances[k].start = utterances[k].words[1].start
  /\ utterances[1].start = 0
  /\ utterances[1].words[1].start > 0

\* identifyClips, the basic splitter, has returned its clips
BasicClipsReturned ==
  /\ calls # <<>>
  /\ calls[Len(calls)] = "identifyClips"
  /\ pc = "returned"

\* the clip the basic splitter holds for the utterances i..j before the trim
\* (clipper.js:1782-1790, 1838-1844)
HeldBasicClip(i, j) ==
  [ start |-> utterances[i].start,
    end |-> utterances[j].end,
    text |-> JoinWithSpace([k \in 1..(j - i + 1) |-> utterances[i + k - 1].text]),
    reason |-> ReasonDefault("Basic clip identification", 0),
    duration |-> utterances[j].end - utterances[i].start ]

\* a returned clip is the clip held for the utterances i..j, cut to its last
\* sentence boundary
TrimmedAndReturned(i, j) ==
  /\ TrimBasicClip(HeldBasicClip(i, j)) # HeldBasicClip(i, j)
  /\ \E c \in DOMAIN clips : clips[c] = TrimBasicClip(HeldBasicClip(i, j))

\* C29: a clip of the basic splitter that was cut to its last sentence
\* boundary ends no later than it did before the cut, and every clip the
\* splitter returns lasts at least CLIP_MIN_DURATION and at most
\* CLIP_MAX_DURATION
C29_TrimNeverMovesEndLaterAndDurationsInRange ==
  BasicClipsReturned =>
    /\ \A i \in DOMAIN utterances : \A j \in i..Len(utterances) :
         TrimmedAndReturned(i, j) =>
           TrimBasicClip(HeldBasicClip(i, j)).end <= HeldBasicClip(i, j).end
    /\ \A c \in DOMAIN clips :
         /\ clips[c].duration >= CLIP_MIN_DURATION * 1000
         /\ clips[c].duration <= CLIP_MAX_DURATION * 1000

\* witness for C29: a returned clip was cut to its last sentence boundary and
\* ends later than the last utterance it was made of
C29_TrimMovesEndLater ==
  /\ BasicClipsReturned
  /\ \E i \in DOMAIN utterances : \E j \in i..Len(utterances) :
       /\ TrimmedAndReturned(i, j)
       /\ Len(TrimBasicClip(HeldBasicClip(i, j)).text) < Len(HeldBasicClip(i, j).text)
       /\ TrimBasicClip(HeldBasicClip(i, j)).end > utterances[j].end

\* the returned clip `selected` is a copy of the n-th clip of the pool
IsCopyOfPoolClip(selected, n) ==
  /\ DOMAIN clipsForAI[n] \subseteq DOMAIN selected
  /\ \A f \in DOMAIN clipsForAI[n] \ SelectionFields : selected[f] = clipsForAI[n][f]

\* C30: the list of clips parsed from a reply holds no clip of the pool more
\* than once, whatever strategy has parsed the reply and however often the
\* reply names a clip number
C30_NoPoolClipSelectedTwice ==
  ReturnedParsedClips =>
    \A n \in DOMAIN clipsForAI :
      Cardinality({k \in DOMAIN clips : IsCopyOfPoolClip(clips[k], n)}) <= 1

\* witness for C30: a reply with two 'SELECTED CLIP 1' lines, parsed for a
\* pool of several different clips, has selected the first clip twice
C30_ClipNamedTwiceSelectedTwice ==
  /\ ReturnedParsedClips
  /\ NumbersIn(aiResponse.text) = {1}
  /\ Len(clipsForAI) > 1
  /\ \A a, b \in DOMAIN clipsForAI : a # b => clipsForAI[a] # clipsForAI[b]
  /\ Len(clips) = 2
  /\ \A k \in DOMAIN clips :
       \A n \in DOMAIN clipsForAI : IsCopyOfPoolClip(clips[k], n) <=> n = 1

\* ------------------------------------------------------------------------
\* Properties of fallbackClipSelection (SpecFallback)

\* the pool's clips as fallbackClipSelection scores them
ScoredPool == [i \in 1..Len(clipsForAI) |-> ScoreForFallback(clipsForAI[i], unit)]

\* the duration categories: under 10 s, 10 to 20 s, 20 to 30 s, 30 s and more
CategoryBounds ==
  { [lo |-> 0, hi |-> 10000], [lo |-> 10000, hi |-> 20000],
    [lo |-> 20000, hi |-> 30000], [lo |-> 30000, hi |-> 24 * 60 * 60 * 1000] }
InCategory(clip, c) == clip.duration >= c.lo * unit /\ clip.duration < c.hi * unit

\* fallbackClipSelection has returned its choice for a pool that is not empty
FallbackReturned ==
  /\ pc = "returned"
  /\ calls[Len(calls)] = "fallbackClipSelection"
  /\ Len(clipsForAI) > 0

\* C17: for every duration category that holds a clip of the pool the result
\* of fallbackClipSelection holds a clip of the category whose final score is
\* the highest of the category; for a pool of one clip per category the
\* result is those four clips.
C17_BestOfEachCategorySelected ==
  FallbackReturned =>
    /\ \A c \in CategoryBounds :
         (\E i \in 1..Len(ScoredPool) : InCategory(ScoredPool[i], c)) =>
           \E k \in 1..Len(clips) :
             /\ InCategory(clips[k], c)
             /\ \E i \in 1..Len(ScoredPool) : clips[k] = ScoredPool[i]
             /\ \A i \in 1..Len(ScoredPool) :
                  InCategory(ScoredPool[i], c) => clips[k].finalScore >= ScoredPool[i].finalScore
    /\ (\A c \in CategoryBounds :
          Cardinality({i \in 1..Len(ScoredPool) : InCategory(ScoredPool[i], c)}) = 1) =>
         /\ Len(clips) = 4
         /\ {clips[k] : k \in 1..4} = {ScoredPool[i] : i \in 1..4}

\* C17: the result for a pool of four clips, one of each category
C17_OneClipOfEachCategory ==
  /\ FallbackReturned
  /\ entry = "fallbackClipSelection"
  /\ Len(clipsForAI) = 4
  /\ \A c \in CategoryBounds : \E i \in 1..4 : InCategory(clipsForAI[i], c)
  /\ Len(clips) = 4

\* two clips share more than 40% of the shorter one
OverlapsOverTwoFifths(a, b) ==
  /\ Min(a.end, b.end) > Max(a.start, b.start)
  /\ 10 * (Min(a.end, b.end) - Max(a.start, b.start)) > 4 * Min(a.end - a.start, b.end - b.start)

\* how many clips of the result are the picks of the categories
CategoryPicks ==
  Cardinality({c \in CategoryBounds : \E i \in 1..Len(ScoredPool) : InCategory(ScoredPool[i], c)})

\* the clips after the picks are in descending order of final score, and none
\* shares more than 40% of the shorter clip with a clip selected before it
ToppedUpInOrder ==
  /\ \A k, l \in (CategoryPicks + 1)..Len(clips) :
       k < l => clips[k].finalScore >= clips[l].finalScore
  /\ \A k \in (CategoryPicks + 1)..Len(clips) :
       \A l \in 1..(k - 1) : ~OverlapsOverTwoFifths(clips[k], clips[l])

\* C18: for a pool of five clips or more, the result of fallbackClipSelection
\* has exactly 5 clips; those after the picks of the categories are in
\* descending order of final score and none of them shares more than 40% of
\* the shorter clip with a clip selected before it.
C18_ToppedUpToExactlyFive ==
  (FallbackReturned /\ Len(clipsForAI) >= 5) =>
    /\ Len(clips) = 5
    /\ ToppedUpInOrder

\* C18, as the code has it: the result has at most 5 clips; those after the
\* picks are in descending order of final score and none shares more than 40%
\* of the shorter clip with a clip selected before it; a clip of the pool
\* that was left out although the result has fewer than 5 clips, or although
\* its final score is above that of a clip added in the top-up, shares more
\* than 40% of the shorter clip with a clip selected before.
C18_ToppedUpToAtMostFive ==
  FallbackReturned =>
    /\ Len(clips) <= 5
    /\ Len(clips) >= CategoryPicks
    /\ ToppedUpInOrder
    /\ \A i \in 1..Len(ScoredPool) :
         (\A k \in 1..Len(clips) : clips[k] # ScoredPool[i]) =>
           /\ Len(clips) < 5 =>
                \E l \in 1..Len(clips) : OverlapsOverTwoFifths(ScoredPool[i], clips[l])
           /\ \A k \in (CategoryPicks + 1)..Len(clips) :
                ScoredPool[i].finalScore > clips[k].finalScore =>
                  \E l \in 1..(k - 1) : OverlapsOverTwoFifths(ScoredPool[i], clips[l])

\* C18: a pool of five clips of three categories, of which the two left after
\* the picks each overlap a pick: the result has three clips
C18_TopUpRunsOutOfClips ==
  /\ FallbackReturned
  /\ entry = "fallbackClipSelection"
  /\ Len(clipsForAI) = 5
  /\ CategoryPicks = 3
  /\ Len(clips) = 3
  /\ \A i \in 1..5 :
       (\A k \in 1..3 : clips[k] # ScoredPool[i]) =>
         \E l \in 1..3 : OverlapsOverTwoFifths(ScoredPool[i], clips[l])

\* ------------------------------------------------------------------------
\* Properties of getDiverseClipSelectionWithDurations (SpecDiverse)

\* getDiverseClipSelectionWithDurations has returned
DiverseReturned ==
  pc = "returned" /\ CallCount("getDiverseClipSelectionWithDurations") = 1

\* the duration buckets that hold a clip of the list: 5-10 s, 10-15 s,
\* 15-20 s, 20-30 s, 30-60 s
BucketsSpanned(list) ==
  {b \in DOMAIN durationBuckets :
     \E i \in DOMAIN list : /\ list[i].duration >= durationBuckets[b].min
                            /\ list[i].duration <= durationBuckets[b].max}

\* C19: when the candidates handed to getDiverseClipSelectionWithDurations
\* fall into at least 3 of the duration buckets, the returned selection holds
\* clips of at least 3 buckets
C19_DiversityPreserved ==
  (DiverseReturned /\ Cardinality(BucketsSpanned(potentialClips)) >= 3)
    => Cardinality(BucketsSpanned(clips)) >= 3

\* C19: the three windows of one first sentence, 7 s, 12 s and 17 s long, are
\* handed over with maxClips 15 and only the first is returned
C19_WindowsOfOneSentenceCollapse ==
  /\ DiverseReturned
  /\ maxClips = 15
  /\ potentialClips = SubSeq(ScoredCatalogue, 1, 3)
  /\ clips = SubSeq(ScoredCatalogue, 1, 1)

\* ------------------------------------------------------------------------
\* Properties of generateClips (SpecGenerate)

\* the clips generateClip was called for
ClipsHandedToGenerateClip == {results[i].clip : i \in DOMAIN results}

\* the value generateClips returned: the paths of the generated clips, one
\* for each result of success (clipper.js:868, 963)
ReturnedPaths == {i \in DOMAIN results : results[i].success}

\* the calls of generateClip that have not settled
InFlight == CallCount("generateClip") - Len(results)

\* the loop of generateClips is over, or was never entered
GenerateOver == entry = "generateClips" /\ pc \in {"returned", "raised"}

\* the clips of the argument that are valid and do not start after the end
\* of a video of the given duration, in the order of the argument
ClipsToAttempt(videoDuration) ==
  FilterSeq(clips, {c \in {clips[i] : i \in DOMAIN clips} :
                      /\ TypeOf(c.start) = "number" /\ TypeOf(c.end) = "number"
                      /\ ~GreaterOrEqual(c.start, c.end)
                      /\ ~Greater(c.start, videoDuration)})

C21_SkippedStepsNeverRun ==
  /\ options.skipDownload => CallCount("downloadVideo") = 0
  /\ options.skipTranscription => CallCount("transcribeAudio") = 0

\* C21: a run with --skip-transcription, the audio there and no transcript,
\* has called transcribeAudio
C21_TranscribedDespiteSkipFlag ==
  /\ options.skipTranscription
  /\ exists.audio /\ ~exists.transcript
  /\ CallCount("transcribeAudio") = 1

\* ------------------------------------------------------------------------
\* Properties of the pool of the text path (SpecPool)

\* the pool is ready for the prompt
PoolShown == entry = "identifyClipsFromFullText" /\ pc = "createPromptForContentType"

\* the CLIPS_FOR_AI / 2 best of the candidates
TopByQuality == Take(SortByQualityDesc(potentialClips), CLIPS_FOR_AI \div 2)

\* C23: with more candidates than CLIPS_FOR_AI, each of the
\* floor(CLIPS_FOR_AI * 0.5) best candidates is in the pool shown to the LLM,
\* whatever the shuffle gave
C23_TopHalfAlwaysInPool ==
  (PoolShown /\ Len(potentialClips) > CLIPS_FOR_AI)
    => LET top == TopByQuality
       IN {top[k] : k \in DOMAIN top} \subseteq {clipsForAI[i] : i \in DOMAIN clipsForAI}

\* C23: 61 candidates, of the 31 that are not among the best 30 sixteen last
\* 5 s and fifteen 15 s: the pool shown holds 60 clips and the best
\* candidate is not among them
C23_BestCandidateCutOff ==
  /\ PoolShown
  /\ Len(potentialClips) = 61
  /\ Cardinality({k \in DOMAIN potentialClips : potentialClips[k].duration = 5000}) = 16
  /\ Len(clipsForAI) = CLIPS_FOR_AI
  /\ potentialClips[61] \notin {clipsForAI[i] : i \in DOMAIN clipsForAI}

\* ------------------------------------------------------------------------
\* Properties of createPotentialClips (SpecCandidates)

\* C24: createPotentialClips adds no candidate once 150 have accumulated: it
\* never returns more than 150 candidates
C24_AtMost150Candidates ==
  (entry = "createPotentialClips" /\ pc = "returned") => Len(potentialClips) <= 150

\* C24: 50 sentences of four words: the groups of six, five and four
\* sentences give 138 candidates, the groups of three sentences 48 more, and
\* the 186 are returned
C24_LastGroupSizeGoesPast150 ==
  /\ entry = "createPotentialClips"
  /\ pc = "returned"
  /\ Len(transcript.sentences) = 50
  /\ Len(transcript.sentences[1]) = 8
  /\ transcript.contentType = "general"
  /\ Len(potentialClips) = 186
  /\ Cardinality({k \in DOMAIN potentialClips : potentialClips[k].sentenceCount > 3}) = 138

\* ------------------------------------------------------------------------
\* Properties of pollForTranscriptionCompletion (SpecPollFair)

\* the loop is over
PollOver == pc \in {"returned", "raised"}

\* C25: pollForTranscriptionCompletion returns only the transcript of a check
\* that reported "completed"; it throws only when a check reported "error" or
\* failed, and then at once; after every other status it waits and checks
\* again; it ends if the service comes to a final answer and polls forever
\* if it does not
C25_PollsUntilTerminalStatus ==
  /\ [](pc = "returned" => (transcript.status = "completed" /\ provider.final = "completed"))
  /\ [](pc = "raised" => (provider.final \in {"error", "failed"} /\ provider.pending = <<>>))
  /\ [][(pc = "checkTranscriptionStatus" /\ NextAnswer(provider) \in {"error", "failed"})
          => pc' = "raised"]_vars
  /\ [][(pc = "checkTranscriptionStatus" /\ NextAnswer(provider) \in {"queued", "processing"})
          => pc' = "setTimeout"]_vars
  /\ [][pc = "setTimeout" => pc' = "checkTranscriptionStatus"]_vars
  /\ (provider.final # "never") ~> PollOver
  /\ [](provider.final = "never" => ~PollOver)

\* C25: the loop waits after a check that reported "processing", and the
\* next check will report "completed"
C25_WaitsBeforeCompletedCheck ==
  /\ entry = "pollForTranscriptionCompletion"
  /\ pc = "setTimeout"
  /\ transcript.status = "processing"
  /\ provider.pending = <<>>
  /\ provider.final = "completed"

\* ------------------------------------------------------------------------
\* Properties of analyzeClipsForQualityAndOverlap (SpecOverlap)

\* C4: two clips of finalClips overlap by more than half of the shorter one
\* only if one of them entered finalClips by replacing a kept clip.
C4_OverlapOnlyByReplacement ==
  \A k, l \in 1..Len(finalClips) :
    (k # l /\ OverlapsOverHalf(clips[finalClips[k].index], clips[finalClips[l].index])) =>
      (finalClips[k].replaced \/ finalClips[l].replaced)

\* C4: a result in which a clip that replaced a kept clip overlaps another
\* clip by more than half of the shorter one
C4_ReplacementOverlapsKeptClip ==
  /\ pc = "resolved"
  /\ \E k, l \in 1..Len(finalClips) :
       /\ k # l
       /\ finalClips[k].replaced
       /\ ~finalClips[l].replaced
       /\ OverlapsOverHalf(clips[finalClips[k].index], clips[finalClips[l].index])

\* C5: of two clips with distinct scores that overlap by more than half of the
\* shorter one, exactly one is returned, the one with the higher score.
C5_HigherScoreOfTwoKept ==
  ( /\ pc = "resolved"
    /\ Len(clips) = 2
    /\ \A i \in 1..2 : "qualityScore" \in DOMAIN clips[i]
    /\ clips[1].qualityScore # clips[2].qualityScore
    /\ OverlapsOverHalf(clips[1], clips[2]) ) =>
    /\ Len(finalClips) = 1
    /\ clips[finalClips[1].index].qualityScore
         = Max(clips[1].qualityScore, clips[2].qualityScore)

\* C5: the state the claim excludes: a kept clip was replaced by a clip with
\* a lower score
C5_ReplacedByLowerScore ==
  /\ pc = "resolved"
  /\ Len(clips) = 2
  /\ Len(finalClips) = 1
  /\ finalClips[1].replaced
  /\ \E i \in 1..2 : clips[i].qualityScore > clips[finalClips[1].index].qualityScore

====
